---- MODULE Spec2Model ----
(***************************************************************************)
(* Motzklist/web: the API client (services/api.ts), the session store      *)
(* (contexts/AuthContext.tsx), the route guard, the cart store             *)
(* (contexts/CartContext.tsx) and the components below them as state       *)
(* machines.                                                               *)
(*                                                                         *)
(* The specifications of the module:                                       *)
(*   SpecApi        one API client call at a time, over every HTTP outcome *)
(*   SpecSession    AuthProvider + ProtectedRoute + the current path       *)
(*   SpecCart       a mounted CartProvider with overlapping requests       *)
(*   SpecApp        the session store with the cart store below it         *)
(*   SpecSelect     SearchableSelect with its blur timeouts                *)
(*   SpecFilter     the filter of SearchableSelect over every query        *)
(*   SpecLogin      LoginForm below the session store                      *)
(*   SpecToast      Toast with the timeout of its effect                   *)
(*   SpecEquipment  the equipment page: selection and quantities           *)
(*   SpecSave       SaveToCartButton below the cart store                  *)
(*   SpecReload     the session store against a server session, with page  *)
(*                  reloads                                                *)
(*   SpecServed     the cart store against a server cart, requests         *)
(*                  overlapping                                            *)
(*   SpecSequential the cart store against a server cart, one request at   *)
(*                  a time                                                 *)
(***************************************************************************)
EXTENDS Integers, Sequences, FiniteSets, Bags, TLC

VARIABLES
    \* --- one API client call (SpecApi) ---
    apiOp,            \* the operation called, "none" when idle
    apiResp,          \* the HTTP outcome of its fetch, NoResp until it arrives
    apiResult,        \* what the call's promise settled with, Unsettled before
    apiFetches,       \* the HTTP requests the call has issued so far
    \* --- AuthProvider (SpecSession) ---
    isAuthenticated,  \* useState(false)
    isLoading,        \* useState(true)
    authError,        \* useState<string | null>(null)
    authEffectRan,    \* the mount effect has dispatched checkAuth
    authPending,      \* bag of API calls of the provider still in flight
    authLast,         \* the provider call that settled last, as its caller saw it
    pathname,         \* usePathname()
    view,             \* what is on screen after the last render
    \* --- CartProvider (SpecCart) ---
    cartEntries,      \* useState<CartEntry[]>([])
    loading,          \* useState(true)
    cartError,        \* useState<string | null>(null)
    cartEffectRan,    \* the mount effect has dispatched fetchCart
    cartPending,      \* bag of API calls of the provider still in flight
    cartLast,         \* the provider call that settled last, as its caller saw it
    \* --- SearchableSelect (SpecSelect, SpecFilter) ---
    items,            \* the `items` prop, the candidate list
    disabled,         \* the `disabled` prop
    query,            \* useState(''), the text of the input
    isOpen,           \* useState(false)
    selectedItem,     \* useState(null), NoItem for null
    focused,          \* whether the input has the focus
    timers,           \* the time left, in ms, of each timeout a blur has set
    selEvent,         \* the event handled last, and the onSelect calls it made
    selView,          \* what the last render computed and put on screen
    \* --- AuthenticatedProviders (SpecApp) ---
    cartOrphans,      \* bag of calls in flight whose CartProvider was unmounted
    orphanLast,       \* the call of an unmounted CartProvider that settled last
    \* --- LoginForm (SpecLogin) ---
    loginForm,        \* its four useState cells: username, password, error, isLoading
    formLast,         \* the event the form handled last, and what the handler called
    \* --- Toast (SpecToast) ---
    toast,            \* whether a Toast is mounted, and its props
    toastTimer,       \* the time left, in ms, of the timeout its effect has set
    toastClock,       \* the time, in ms, since the toast was last made visible
    toastCloses,      \* the calls of onClose since the toast was last made visible
    \* --- the equipment page: EquipmentList, SaveToCartButton (SpecEquipment, SpecSave) ---
    school,           \* the school chosen on the page, NoChoice for null
    grade,            \* the grade chosen on the page, NoChoice for null
    selectedIds,      \* the ids of the equipment rows that are selected
    quantities,       \* the quantity of every equipment row
    equipLast,        \* the quantity typed last, and what onQuantityChange got
    saveButton,       \* SaveToCartButton: its `disabled` prop and its confirmation state
    saveTimer,        \* the time left, in ms, of the timeout that ends the confirmation
    saveLast,         \* the click the button got last, and the addToCart call it made
    \* --- the backend behind the API (SpecReload, SpecServed, SpecSequential) ---
    serverSession,    \* whether the session of the browser's cookie is valid
    serverCart,       \* the cart list the server holds
    serverNextId,     \* the id the server gives to the next entry it creates
    serverAnswers,    \* the requests the server has answered, not yet delivered
    reloadedAfter,    \* the session operation settled last before the page was reloaded
    failedSince       \* a cart call has failed since a getCart or clearCart succeeded

apiVars     == <<apiOp, apiResp, apiResult, apiFetches>>
sessionVars == <<isAuthenticated, isLoading, authError, authEffectRan,
                 authPending, authLast, pathname, view>>
cartVars    == <<cartEntries, loading, cartError, cartEffectRan, cartPending,
                 cartLast>>
selectVars  == <<items, disabled, query, isOpen, selectedItem, focused, timers,
                 selEvent, selView>>
appVars     == <<cartOrphans, orphanLast>>
formVars    == <<loginForm, formLast>>
toastVars   == <<toast, toastTimer, toastClock, toastCloses>>
pageVars    == <<school, grade, selectedIds, quantities, equipLast>>
saveVars    == <<saveButton, saveTimer, saveLast>>
uiVars      == <<formVars, toastVars, pageVars, saveVars>>
serverVars  == <<serverSession, serverCart, serverNextId, serverAnswers,
                 reloadedAfter, failedSince>>
vars        == <<apiVars, sessionVars, cartVars, selectVars, appVars, uiVars,
                 serverVars>>

(***************************************************************************)
(* Bounds of the model.                                                    *)
(***************************************************************************)
MaxInFlight == 2      \* calls of one provider in flight at the same time
MaxCart     == 2      \* entries in a cart list, and distinct entry ids
MaxItems    == 2      \* items in a candidate list of the selector
MaxQuery    == 2      \* characters in a query typed into the selector
MaxTimers   == 2      \* blur timeouts of the selector pending at the same time
MaxCredential == 2    \* characters in a user name or password typed into the form
MaxTicks    == 12     \* steps of time followed after a toast is made visible

(***************************************************************************)
(* Values.                                                                 *)
(***************************************************************************)
Null   == "null"          \* JavaScript null (error state not set)
Absent == "<absent>"      \* a JSON body without an `error` field

Ops == {"login", "logout", "checkAuth", "getCart", "addToCart",
        "removeFromCart", "clearCart"}

\* The fixed fallback string each operation passes or declares.
Fallback(op) ==
    CASE op = "login"          -> "Login failed"
      [] op = "logout"         -> "Logout failed"
      [] op = "checkAuth"      -> "Not authenticated"
      [] op = "getCart"        -> "Failed to fetch cart"
      [] op = "addToCart"      -> "Failed to add to cart"
      [] op = "removeFromCart" -> "Failed to remove from cart"
      [] op = "clearCart"      -> "Failed to clear cart"

\* `error` fields a server may send: none, the empty string, two messages.
ErrorFields == {Absent, "", "Invalid credentials", "Server error"}

EntryIds   == 1..MaxCart
\* The entry the server creates with id i carries the server's timestamp for it.
TimestampOf(i) == 10 * i
CartEntry  == {[id |-> i, timestamp |-> TimestampOf(i)] : i \in EntryIds}

RECURSIVE SeqsUpTo(_, _)
SeqsUpTo(S, n) ==
    IF n = 0 THEN {<<>>}
    ELSE LET shorter == SeqsUpTo(S, n - 1)
         IN  shorter \cup {Append(s, x) : s \in shorter, x \in S}

\* JavaScript `a || b` on a string (or missing) left operand.
OrElse(a, b) == IF a \in {Absent, ""} THEN b ELSE a

(***************************************************************************)
(* The API client.  An HTTP outcome is a transport failure (fetch itself   *)
(* rejects) or a response with a status class and a body; a body is        *)
(* unparseable or a JSON value with an optional `error` field and a        *)
(* payload `data`.                                                         *)
(***************************************************************************)
Body(parses, err, data) == [parses |-> parses, error |-> err, data |-> data]
Response(net, ok, body) == [net |-> net, ok |-> ok, body |-> body]

\* The HTTP outcomes of one fetch whose success payload is drawn from D:
\* fetch rejects; a success status with a payload or an unparseable body; a
\* non-success status with each kind of error body.
Responses(D) ==
    LET d0 == CHOOSE d \in D : TRUE
    IN  {Response(FALSE, FALSE, Body(FALSE, Absent, d0))}
        \cup {Response(TRUE, TRUE, Body(TRUE, Absent, d)) : d \in D}
        \cup {Response(TRUE, TRUE, Body(FALSE, Absent, d0))}
        \cup {Response(TRUE, FALSE, Body(TRUE, e, d0)) : e \in ErrorFields}
        \cup {Response(TRUE, FALSE, Body(FALSE, Absent, d0))}

\* A settled promise: resolved with a value, or rejected with an Error message.
Resolved(data)    == [kind |-> "resolve", message |-> "", data |-> <<data>>]
Rejected(message) == [kind |-> "reject", message |-> message, data |-> <<>>]
ValueOf(p)        == p.data[1]

\* res.json(): the parsed body, or a SyntaxError rejection.
ResJson(body) ==
    IF body.parses THEN Resolved(body) ELSE Rejected("SyntaxError")

\* parseError's .then(data => { throw new Error(data?.error || fallback) }),
\* which runs only when res.json() resolved.
ParseErrorThen(p, fallback) ==
    IF p.kind = "resolve" THEN Rejected(OrElse(ValueOf(p).error, fallback)) ELSE p

\* parseError's .catch(() => { throw new Error(fallback) }), chained after the
\* .then: it handles every rejection of the chain before it.
ParseErrorCatch(p, fallback) ==
    IF p.kind = "reject" THEN Rejected(fallback) ELSE p

parseError(body, fallback) ==
    ParseErrorCatch(ParseErrorThen(ResJson(body), fallback), fallback)

\* The inline handling of checkAuth and clearCart:
\*   let message = fallback; try { message = (await res.json())?.error || message } catch {}
InlineError(body, fallback) ==
    LET p == ResJson(body)
    IN  Rejected(IF p.kind = "resolve" THEN OrElse(ValueOf(p).error, fallback)
                 ELSE fallback)

\* `return res.json()` on a success status.
ReturnJson(body) ==
    LET p == ResJson(body)
    IN  IF p.kind = "resolve" THEN Resolved(ValueOf(p).data) ELSE p

\* One API client function applied to the outcome of its single fetch.
ApiCall(op, resp) ==
    IF ~resp.net THEN Rejected("Failed to fetch")
    ELSE IF resp.ok THEN ReturnJson(resp.body)
    ELSE IF op \in {"checkAuth", "clearCart"} THEN InlineError(resp.body, Fallback(op))
    ELSE parseError(resp.body, Fallback(op))

\* What a caller of the client observes of a settled call.
Outcome(p) == [kind |-> p.kind, message |-> p.message]
Unsettled  == [kind |-> "pending", message |-> ""]

(***************************************************************************)
(* SpecApi: one API client call from the call to the settled promise.      *)
(***************************************************************************)
ApiPayloads == {"payload A", "payload B"}
NoResp      == Response(FALSE, FALSE, Body(FALSE, Absent, "none"))

\* Faulty variant: a call that failed is issued again.
AfterFetchRetrying(resp) == IF ~resp.net \/ ~resp.ok THEN "fetch" ELSE "return"

\* Where a client function goes once its fetch has settled: every function
\* has one `await fetch` and no loop around it, so it goes on to its return
\* or throw, whatever the outcome.
AfterFetch(resp) == "return"

ApiInit ==
    /\ apiOp = "none"
    /\ apiResp = NoResp
    /\ apiResult = Unsettled
    /\ apiFetches = 0

\* The client function is called: it issues its fetch and awaits it.
ApiCallStart(op) ==
    /\ apiOp = "none"
    /\ apiOp' = op
    /\ apiFetches' = apiFetches + 1
    /\ UNCHANGED <<apiResp, apiResult>>
    /\ UNCHANGED <<sessionVars, cartVars, selectVars, appVars, uiVars,
                   serverVars>>

\* The fetch settles with an HTTP outcome.
ApiFetchSettle(resp) ==
    /\ apiOp # "none"
    /\ apiResp = NoResp
    /\ IF AfterFetch(resp) = "fetch"
       THEN apiFetches' = apiFetches + 1 /\ UNCHANGED apiResp
       ELSE apiResp' = resp /\ UNCHANGED apiFetches
    /\ UNCHANGED <<apiOp, apiResult>>
    /\ UNCHANGED <<sessionVars, cartVars, selectVars, appVars, uiVars,
                   serverVars>>

\* The rest of the function body runs and the call's promise settles.
ApiReturn ==
    /\ apiResp # NoResp
    /\ apiResult = Unsettled
    /\ apiResult' = Outcome(ApiCall(apiOp, apiResp))
    /\ UNCHANGED <<apiOp, apiResp, apiFetches>>
    /\ UNCHANGED <<sessionVars, cartVars, selectVars, appVars, uiVars,
                   serverVars>>

\* The caller is done with the settled call.
ApiDone ==
    /\ apiResult # Unsettled
    /\ apiOp' = "none"
    /\ apiResp' = NoResp
    /\ apiResult' = Unsettled
    /\ apiFetches' = 0
    /\ UNCHANGED <<sessionVars, cartVars, selectVars, appVars, uiVars,
                   serverVars>>

(***************************************************************************)
(* The session store (AuthProvider) and the route guard (ProtectedRoute).  *)
(***************************************************************************)
Paths == {"/", "/login", "/cart", "/about"}

NoCall == [op |-> "none", api |-> Unsettled, outcome |-> "none", thrown |-> "",
           was |-> FALSE]

\* Faulty variant: the provider renders its children while still loading.
AuthProviderRenderAlways(loadingNow) == "children"

\* AuthProvider's render: null while loading, the provider with its children after.
AuthProviderRender(loadingNow) == IF loadingNow THEN "null" ELSE "children"

\* Faulty variant: the guard renders its children for every session.
ProtectedRouteRenderOpen(auth, path) == "children"

\* ProtectedRoute's render: its children on /login and for an authenticated
\* session, nothing otherwise (it redirects from an effect).
ProtectedRouteRender(auth, path) ==
    IF ~auth /\ path # "/login" THEN "null" ELSE "children"

\* Faulty variant: the cart store is wrapped around the children for every session.
AuthenticatedProvidersRenderAlways(auth) == "CartProvider"

\* AuthenticatedProviders' render: CartProvider around its children for an
\* authenticated session, the bare children otherwise.
AuthenticatedProvidersRender(auth) == IF auth THEN "CartProvider" ELSE "children"

\* The screen after a render of the tree AuthProvider > AuthenticatedProviders >
\* ProtectedRoute > page: whether anything below the session store is rendered,
\* whether the cart store is, whether the guard is, and the page (the guard's
\* children) shown, "none" when there is none.
Render(loadingNow, auth, path) ==
    IF AuthProviderRender(loadingNow) = "null"
    THEN [below |-> FALSE, cart |-> FALSE, guard |-> FALSE, page |-> "none"]
    ELSE [below |-> TRUE,
          cart  |-> AuthenticatedProvidersRender(auth) = "CartProvider",
          guard |-> TRUE,
          page  |-> IF ProtectedRouteRender(auth, path) = "children"
                    THEN path ELSE "none"]

\* The session as the spec names it.
Session ==
    IF isLoading THEN "Loading"
    ELSE IF isAuthenticated THEN "Authenticated" ELSE "Unauthenticated"

SessionInit ==
    /\ isAuthenticated = FALSE
    /\ isLoading = TRUE
    /\ authError = Null
    /\ authEffectRan = FALSE
    /\ authPending = EmptyBag
    /\ authLast = NoCall
    /\ pathname \in Paths
    /\ view = Render(TRUE, FALSE, pathname)

\* useEffect(() => { (async () => { ... await api.checkAuth() ... })() }, [])
AuthMountEffect ==
    /\ ~authEffectRan
    /\ authEffectRan' = TRUE
    /\ authPending' = authPending (+) SetToBag({"checkAuth"})
    /\ UNCHANGED <<isAuthenticated, isLoading, authError, authLast, pathname, view>>
    /\ UNCHANGED <<apiVars, cartVars, selectVars, appVars, uiVars,
                   serverVars>>

\* Faulty variant: setIsLoading(false) only on the success path, no finally.
CheckAuthSettledNoFinally(p) ==
    [isAuthenticated |-> (p.kind = "resolve"), isLoading |-> (p.kind = "reject")]

\* The state the mount effect's try/catch/finally leaves.
CheckAuthSettled(p) ==
    [isAuthenticated |-> (p.kind = "resolve"), isLoading |-> FALSE]

CheckAuthSettle(resp) ==
    /\ BagIn("checkAuth", authPending)
    /\ LET p == ApiCall("checkAuth", resp)
           s == CheckAuthSettled(p)
       IN  /\ isAuthenticated' = s.isAuthenticated
           /\ isLoading' = s.isLoading
           /\ authLast' = [op |-> "checkAuth", api |-> Outcome(p),
                           outcome |-> "resolved", thrown |-> "",
                           was |-> isAuthenticated]
    /\ authPending' = authPending (-) SetToBag({"checkAuth"})
    /\ view' = Render(isLoading', isAuthenticated', pathname)
    /\ UNCHANGED <<authError, authEffectRan, pathname>>
    /\ UNCHANGED <<apiVars, cartVars, selectVars, appVars, uiVars,
                   serverVars>>

\* login(username, password) up to its await: setError(null), the call is issued.
\* login and logout reach callers through the context value, which exists only
\* once the provider renders its children.
Login ==
    /\ AuthProviderRender(isLoading) = "children"
    /\ BagCardinality(authPending) < MaxInFlight
    /\ authError' = Null
    /\ authPending' = authPending (+) SetToBag({"login"})
    /\ UNCHANGED <<isAuthenticated, isLoading, authEffectRan, authLast, pathname, view>>
    /\ UNCHANGED <<apiVars, cartVars, selectVars, appVars, uiVars,
                   serverVars>>

\* Faulty variant: a failed login leaves isAuthenticated as it was.
LoginSettledKeepsSession(p) ==
    IF p.kind = "resolve"
    THEN [isAuthenticated |-> TRUE, error |-> authError,
          outcome |-> "resolved", thrown |-> ""]
    ELSE [isAuthenticated |-> isAuthenticated,
          error |-> OrElse(p.message, "Login failed"),
          outcome |-> "rejected", thrown |-> p.message]

\* What login's try/catch does once api.login has settled with p: the new
\* state, and how login's own promise settles.
LoginSettled(p) ==
    IF p.kind = "resolve"
    THEN [isAuthenticated |-> TRUE, error |-> authError,
          outcome |-> "resolved", thrown |-> ""]
    ELSE [isAuthenticated |-> FALSE, error |-> OrElse(p.message, "Login failed"),
          outcome |-> "rejected", thrown |-> p.message]

LoginSettle(resp) ==
    /\ BagIn("login", authPending)
    /\ LET p == ApiCall("login", resp)
           s == LoginSettled(p)
       IN  /\ isAuthenticated' = s.isAuthenticated
           /\ authError' = s.error
           /\ authLast' = [op |-> "login", api |-> Outcome(p),
                           outcome |-> s.outcome, thrown |-> s.thrown,
                           was |-> isAuthenticated]
    /\ authPending' = authPending (-) SetToBag({"login"})
    /\ view' = Render(isLoading, isAuthenticated', pathname)
    /\ UNCHANGED <<isLoading, authEffectRan, pathname>>
    /\ UNCHANGED <<apiVars, cartVars, selectVars, appVars, uiVars,
                   serverVars>>

\* logout() up to its await.
Logout ==
    /\ AuthProviderRender(isLoading) = "children"
    /\ BagCardinality(authPending) < MaxInFlight
    /\ authError' = Null
    /\ authPending' = authPending (+) SetToBag({"logout"})
    /\ UNCHANGED <<isAuthenticated, isLoading, authEffectRan, authLast, pathname, view>>
    /\ UNCHANGED <<apiVars, cartVars, selectVars, appVars, uiVars,
                   serverVars>>

\* Faulty variant: no try/catch around api.logout, so a rejection propagates
\* and setIsAuthenticated(false) is skipped.
LogoutSettledUnlessFailed(p) ==
    IF p.kind = "resolve"
    THEN [isAuthenticated |-> FALSE, outcome |-> "resolved", thrown |-> ""]
    ELSE [isAuthenticated |-> isAuthenticated, outcome |-> "rejected",
          thrown |-> p.message]

\* Faulty variant: the logout leaves alone the session that the login which
\* settled last has established.
LogoutSettledAfterLoginKept(p) ==
    [isAuthenticated |-> (isAuthenticated /\ authLast.op = "login"),
     outcome |-> "resolved", thrown |-> ""]

\* What logout does once api.logout has settled with p: the catch swallows a
\* rejection and setIsAuthenticated(false) runs either way.
LogoutSettled(p) ==
    [isAuthenticated |-> FALSE, outcome |-> "resolved", thrown |-> ""]

LogoutSettle(resp) ==
    /\ BagIn("logout", authPending)
    /\ LET p == ApiCall("logout", resp)
           s == LogoutSettled(p)
       IN  /\ isAuthenticated' = s.isAuthenticated
           /\ authLast' = [op |-> "logout", api |-> Outcome(p),
                           outcome |-> s.outcome, thrown |-> s.thrown,
                           was |-> isAuthenticated]
    /\ authPending' = authPending (-) SetToBag({"logout"})
    /\ view' = Render(isLoading, isAuthenticated', pathname)
    /\ UNCHANGED <<isLoading, authError, authEffectRan, pathname>>
    /\ UNCHANGED <<apiVars, cartVars, selectVars, appVars, uiVars,
                   serverVars>>

\* Client-side navigation from a link of the page on screen.
Navigate(path) ==
    /\ view.page # "none"
    /\ path # pathname
    /\ pathname' = path
    /\ view' = Render(isLoading, isAuthenticated, path)
    /\ UNCHANGED <<isAuthenticated, isLoading, authError, authEffectRan,
                   authPending, authLast>>
    /\ UNCHANGED <<apiVars, cartVars, selectVars, appVars, uiVars,
                   serverVars>>

\* ProtectedRoute's effect: router.replace('/login') when it rendered nothing.
RedirectEffect ==
    /\ view.guard
    /\ view.page = "none"
    /\ pathname' = "/login"
    /\ view' = Render(isLoading, isAuthenticated, "/login")
    /\ UNCHANGED <<isAuthenticated, isLoading, authError, authEffectRan,
                   authPending, authLast>>
    /\ UNCHANGED <<apiVars, cartVars, selectVars, appVars, uiVars,
                   serverVars>>

AuthResponses == Responses(ApiPayloads)

(***************************************************************************)
(* The cart store (CartProvider).                                          *)
(***************************************************************************)
\* The lists GET /cart returns: the server gives every entry its own id.
UniqueIds(l) == \A i, j \in 1..Len(l) : l[i].id = l[j].id => i = j
CartLists    == {l \in SeqsUpTo(CartEntry, MaxCart) : UniqueIds(l)}
Ack       == "ack"

Request(op, arg) == [op |-> op, arg |-> arg]
GetCartReq       == Request("getCart", 0)
AddToCartReq     == Request("addToCart", 0)
RemoveReq(id)    == Request("removeFromCart", id)
ClearCartReq     == Request("clearCart", 0)

NoCartCall == [op |-> "none", arg |-> 0, api |-> Unsettled, outcome |-> "none",
               returned |-> <<>>, prev |-> <<>>]

\* addToCart calls in flight: each may still append one entry.
PendingAdds == CopiesIn(AddToCartReq, cartPending)

CartInit ==
    /\ cartEntries = <<>>
    /\ loading = TRUE
    /\ cartError = Null
    /\ cartEffectRan = FALSE
    /\ cartPending = EmptyBag
    /\ cartLast = NoCartCall

\* Faulty variant: fetchCart also empties the list before the call is issued.
FetchCartStartClearing ==
    /\ loading' = TRUE
    /\ cartError' = Null
    /\ cartEntries' = <<>>
    /\ cartPending' = cartPending (+) SetToBag({GetCartReq})
    /\ UNCHANGED cartLast

\* fetchCart up to its await: setLoading(true), setError(null), the call is issued.
FetchCartStart ==
    /\ loading' = TRUE
    /\ cartError' = Null
    /\ cartPending' = cartPending (+) SetToBag({GetCartReq})
    /\ UNCHANGED <<cartEntries, cartLast>>

\* useEffect(() => { fetchCart() }, [fetchCart])
CartMountEffect ==
    /\ ~cartEffectRan
    /\ cartEffectRan' = TRUE
    /\ FetchCartStart
    /\ UNCHANGED <<apiVars, sessionVars, selectVars, appVars, uiVars,
                   serverVars>>

\* refreshCart = fetchCart, called by a consumer of the mounted provider.
RefreshCart ==
    /\ cartEffectRan
    /\ BagCardinality(cartPending) < MaxInFlight
    /\ FetchCartStart
    /\ UNCHANGED cartEffectRan
    /\ UNCHANGED <<apiVars, sessionVars, selectVars, appVars, uiVars,
                   serverVars>>

\* Faulty variant: the fetched list is merged into the local one, [...prev, ...data].
FetchCartSettledMerging(p) ==
    IF p.kind = "resolve"
    THEN [cartEntries |-> cartEntries \o ValueOf(p), error |-> cartError,
          loading |-> FALSE, outcome |-> "resolved"]
    ELSE [cartEntries |-> <<>>, error |-> OrElse(p.message, "Failed to fetch cart"),
          loading |-> FALSE, outcome |-> "resolved"]

\* Faulty variant: a failed fetch sets the error but keeps the list it had.
FetchCartSettledKeepingList(p) ==
    IF p.kind = "resolve"
    THEN [cartEntries |-> ValueOf(p), error |-> cartError, loading |-> FALSE,
          outcome |-> "resolved"]
    ELSE [cartEntries |-> cartEntries,
          error |-> OrElse(p.message, "Failed to fetch cart"),
          loading |-> FALSE, outcome |-> "resolved"]

\* What fetchCart's try/catch/finally does once api.getCart has settled with p.
FetchCartSettled(p) ==
    IF p.kind = "resolve"
    THEN [cartEntries |-> ValueOf(p), error |-> cartError, loading |-> FALSE,
          outcome |-> "resolved"]
    ELSE [cartEntries |-> <<>>, error |-> OrElse(p.message, "Failed to fetch cart"),
          loading |-> FALSE, outcome |-> "resolved"]

FetchCartSettle(resp) ==
    /\ BagIn(GetCartReq, cartPending)
    /\ LET p == ApiCall("getCart", resp)
           s == FetchCartSettled(p)
       IN  /\ cartEntries' = s.cartEntries
           /\ cartError' = s.error
           /\ loading' = s.loading
           /\ cartLast' = [op |-> "getCart", arg |-> 0, api |-> Outcome(p),
                           outcome |-> s.outcome,
                           returned |-> IF p.kind = "resolve" THEN ValueOf(p) ELSE <<>>,
                           prev |-> cartEntries]
    /\ cartPending' = cartPending (-) SetToBag({GetCartReq})
    /\ UNCHANGED cartEffectRan
    /\ UNCHANGED <<apiVars, sessionVars, selectVars, appVars, uiVars,
                   serverVars>>

\* Faulty variant: addToCart issues its call without setError(null).
AddToCartKeepingError ==
    /\ cartEffectRan
    /\ BagCardinality(cartPending) < MaxInFlight
    /\ Len(cartEntries) + PendingAdds < MaxCart
    /\ cartPending' = cartPending (+) SetToBag({AddToCartReq})
    /\ UNCHANGED <<cartEntries, loading, cartError, cartEffectRan, cartLast>>
    /\ UNCHANGED <<apiVars, sessionVars, selectVars, appVars, uiVars,
                   serverVars>>

\* addToCart(entry) up to its await: setError(null), the call is issued.
AddToCart ==
    /\ cartEffectRan
    /\ BagCardinality(cartPending) < MaxInFlight
    /\ Len(cartEntries) + PendingAdds < MaxCart
    /\ cartError' = Null
    /\ cartPending' = cartPending (+) SetToBag({AddToCartReq})
    /\ UNCHANGED <<cartEntries, loading, cartEffectRan, cartLast>>
    /\ UNCHANGED <<apiVars, sessionVars, selectVars, appVars, uiVars,
                   serverVars>>

\* Faulty variant: the entry is appended to a list read before the latest call
\* settled, [...cartEntries, newEntry] over a stale cartEntries, not to prev.
AddToCartSettledStale(p) ==
    IF p.kind = "resolve"
    THEN [cartEntries |-> cartLast.prev \o <<ValueOf(p)>>, error |-> cartError,
          outcome |-> "resolved"]
    ELSE [cartEntries |-> cartEntries,
          error |-> OrElse(p.message, "Failed to add to cart"),
          outcome |-> "resolved"]

\* Faulty variant: the catch also empties the list, as fetchCart's catch does.
AddToCartSettledClearing(p) ==
    IF p.kind = "resolve"
    THEN [cartEntries |-> cartEntries \o <<ValueOf(p)>>, error |-> cartError,
          outcome |-> "resolved"]
    ELSE [cartEntries |-> <<>>,
          error |-> OrElse(p.message, "Failed to add to cart"),
          outcome |-> "resolved"]

\* Faulty variant: the new entry is put first, [newEntry, ...prev].
AddToCartSettledPrepending(p) ==
    IF p.kind = "resolve"
    THEN [cartEntries |-> <<ValueOf(p)>> \o cartEntries, error |-> cartError,
          outcome |-> "resolved"]
    ELSE [cartEntries |-> cartEntries,
          error |-> OrElse(p.message, "Failed to add to cart"),
          outcome |-> "resolved"]

\* What addToCart's try/catch does once api.addToCart has settled with p.
AddToCartSettled(p) ==
    IF p.kind = "resolve"
    THEN [cartEntries |-> cartEntries \o <<ValueOf(p)>>, error |-> cartError,
          outcome |-> "resolved"]
    ELSE [cartEntries |-> cartEntries,
          error |-> OrElse(p.message, "Failed to add to cart"),
          outcome |-> "resolved"]

AddToCartSettle(resp) ==
    /\ BagIn(AddToCartReq, cartPending)
    /\ LET p == ApiCall("addToCart", resp)
           s == AddToCartSettled(p)
       IN  /\ cartEntries' = s.cartEntries
           /\ cartError' = s.error
           /\ cartLast' = [op |-> "addToCart", arg |-> 0, api |-> Outcome(p),
                           outcome |-> s.outcome,
                           returned |-> IF p.kind = "resolve" THEN <<ValueOf(p)>> ELSE <<>>,
                           prev |-> cartEntries]
    /\ cartPending' = cartPending (-) SetToBag({AddToCartReq})
    /\ UNCHANGED <<loading, cartEffectRan>>
    /\ UNCHANGED <<apiVars, sessionVars, selectVars, appVars, uiVars,
                   serverVars>>

\* removeFromCart(id) up to its await.
RemoveFromCart(id) ==
    /\ cartEffectRan
    /\ BagCardinality(cartPending) < MaxInFlight
    /\ cartError' = Null
    /\ cartPending' = cartPending (+) SetToBag({RemoveReq(id)})
    /\ UNCHANGED <<cartEntries, loading, cartEffectRan, cartLast>>
    /\ UNCHANGED <<apiVars, sessionVars, selectVars, appVars, uiVars,
                   serverVars>>

\* Faulty variant: the filter keeps the matching entries, entry.id === id.
RemoveFromCartSettledInverted(id, p) ==
    IF p.kind = "resolve"
    THEN [cartEntries |-> SelectSeq(cartEntries, LAMBDA entry : entry.id = id),
          error |-> cartError, outcome |-> "resolved"]
    ELSE [cartEntries |-> cartEntries,
          error |-> OrElse(p.message, "Failed to remove from cart"),
          outcome |-> "resolved"]

\* What removeFromCart's try/catch does once api.removeFromCart has settled with p.
RemoveFromCartSettled(id, p) ==
    IF p.kind = "resolve"
    THEN [cartEntries |-> SelectSeq(cartEntries, LAMBDA entry : entry.id # id),
          error |-> cartError, outcome |-> "resolved"]
    ELSE [cartEntries |-> cartEntries,
          error |-> OrElse(p.message, "Failed to remove from cart"),
          outcome |-> "resolved"]

RemoveFromCartSettle(id, resp) ==
    /\ BagIn(RemoveReq(id), cartPending)
    /\ LET p == ApiCall("removeFromCart", resp)
           s == RemoveFromCartSettled(id, p)
       IN  /\ cartEntries' = s.cartEntries
           /\ cartError' = s.error
           /\ cartLast' = [op |-> "removeFromCart", arg |-> id, api |-> Outcome(p),
                           outcome |-> s.outcome, returned |-> <<>>,
                           prev |-> cartEntries]
    /\ cartPending' = cartPending (-) SetToBag({RemoveReq(id)})
    /\ UNCHANGED <<loading, cartEffectRan>>
    /\ UNCHANGED <<apiVars, sessionVars, selectVars, appVars, uiVars,
                   serverVars>>

\* clearCart() up to its await.
ClearCart ==
    /\ cartEffectRan
    /\ BagCardinality(cartPending) < MaxInFlight
    /\ cartError' = Null
    /\ cartPending' = cartPending (+) SetToBag({ClearCartReq})
    /\ UNCHANGED <<cartEntries, loading, cartEffectRan, cartLast>>
    /\ UNCHANGED <<apiVars, sessionVars, selectVars, appVars, uiVars,
                   serverVars>>

\* Faulty variant: the list is emptied whether or not the call succeeded.
ClearCartSettledAlways(p) ==
    IF p.kind = "resolve"
    THEN [cartEntries |-> <<>>, error |-> cartError, outcome |-> "resolved"]
    ELSE [cartEntries |-> <<>>,
          error |-> OrElse(p.message, "Failed to clear cart"),
          outcome |-> "resolved"]

\* Faulty variant: a successful clearCart leaves the local list as it was.
ClearCartSettledKeepingList(p) ==
    IF p.kind = "resolve"
    THEN [cartEntries |-> cartEntries, error |-> cartError, outcome |-> "resolved"]
    ELSE [cartEntries |-> cartEntries,
          error |-> OrElse(p.message, "Failed to clear cart"),
          outcome |-> "resolved"]

\* What clearCart's try/catch does once api.clearCart has settled with p.
ClearCartSettled(p) ==
    IF p.kind = "resolve"
    THEN [cartEntries |-> <<>>, error |-> cartError, outcome |-> "resolved"]
    ELSE [cartEntries |-> cartEntries,
          error |-> OrElse(p.message, "Failed to clear cart"),
          outcome |-> "resolved"]

ClearCartSettle(resp) ==
    /\ BagIn(ClearCartReq, cartPending)
    /\ LET p == ApiCall("clearCart", resp)
           s == ClearCartSettled(p)
       IN  /\ cartEntries' = s.cartEntries
           /\ cartError' = s.error
           /\ cartLast' = [op |-> "clearCart", arg |-> 0, api |-> Outcome(p),
                           outcome |-> s.outcome, returned |-> <<>>,
                           prev |-> cartEntries]
    /\ cartPending' = cartPending (-) SetToBag({ClearCartReq})
    /\ UNCHANGED <<loading, cartEffectRan>>
    /\ UNCHANGED <<apiVars, sessionVars, selectVars, appVars, uiVars,
                   serverVars>>

\* The lists GET /cart may return while PendingAdds appends are still to come.
GetCartResponses ==
    Responses({l \in CartLists : Len(l) + PendingAdds <= MaxCart})
AddToCartResponses == Responses(CartEntry)
AckResponses       == Responses({Ack})

(***************************************************************************)
(* The selector (SearchableSelect).  A text is a sequence of characters.   *)
(***************************************************************************)
BLUR_CLOSE_DELAY_MS == 200

\* Time advances in steps of half the delay.
TickMs == BLUR_CLOSE_DELAY_MS \div 2

Chars   == {"a", "A", "b", "B", "1"}
Strings == SeqsUpTo(Chars, MaxQuery)

\* String.prototype.toLowerCase, of one character and of a text.
LowerChar(c)   == CASE c = "A" -> "a" [] c = "B" -> "b" [] OTHER -> c
ToLowerCase(s) == [i \in 1..Len(s) |-> LowerChar(s[i])]

\* String.prototype.includes
Includes(s, sub) ==
    \E i \in 0..(Len(s) - Len(sub)) : SubSeq(s, i + 1, i + Len(sub)) = sub

\* interface SelectItem { id; name }, and the value standing for null.
SelectItem(id, name) == [id |-> id, name |-> name]
NoItem == SelectItem(0, <<>>)
Item1  == SelectItem(1, <<"a", "B">>)
Item2  == SelectItem(2, <<"b">>)
Item3  == SelectItem(3, <<"A", "1", "b">>)
ItemPool  == {Item1, Item2, Item3}
ItemLists == SeqsUpTo(ItemPool, MaxItems)

\* The candidate lists a caller passes and the texts a user types in SpecSelect.
Catalogs   == {<<>>, <<Item1, Item2>>, <<Item3, Item1>>}
TypedTexts == {<<>>, <<"b">>, <<"A">>, <<"1", "1">>}

\* An event as it was handled: its type, the item it concerned, the onSelect
\* calls its handler made, and the state it found: whether the input held a
\* text, the selected item, and isOpen.
Event(type, item, calls) ==
    [type |-> type, item |-> item, calls |-> calls,
     before |-> [text |-> query # <<>>, selectedItem |-> selectedItem,
                 isOpen |-> isOpen]]

\* Faulty variant: the names are compared as they are, without toLowerCase.
FilteredItemsCaseSensitive(list, q) ==
    SelectSeq(list, LAMBDA item : Includes(item.name, q))

\* items.filter(item => item.name.toLowerCase().includes(query.toLowerCase()))
FilteredItems(list, q) ==
    SelectSeq(list, LAMBDA item : Includes(ToLowerCase(item.name), ToLowerCase(q)))

\* Faulty variant: the list is rendered whenever there is a match.
ListboxRenderedAlways(open, dis, filteredItems) == Len(filteredItems) > 0

\* {isOpen && !disabled && filteredItems.length > 0 && (<ul role="listbox"> ...)}
ListboxRendered(open, dis, filteredItems) ==
    open /\ ~dis /\ Len(filteredItems) > 0

\* The render: the filtered items, whether the list is on screen, the rows it
\* shows and the value of the input.
SelectRender(list, dis, q, open) ==
    LET filteredItems == FilteredItems(list, q)
        listbox       == ListboxRendered(open, dis, filteredItems)
    IN  [filteredItems |-> filteredItems,
         listbox       |-> listbox,
         rows          |-> IF listbox THEN filteredItems ELSE <<>>,
         value         |-> q]

\* The selector after its mount with the props items = list, disabled = dis; the
\* effect on [items] has run and set what the state held already.
SelectorInit(list, dis) ==
    /\ items = list
    /\ disabled = dis
    /\ query = <<>>
    /\ isOpen = FALSE
    /\ selectedItem = NoItem
    /\ focused = FALSE
    /\ timers = <<>>
    /\ selEvent = Event("mount", NoItem, <<>>)
    /\ selView = SelectRender(list, dis, <<>>, FALSE)

\* onFocus={() => !disabled && setIsOpen(true)}: isOpen after the handler.
OnFocus(dis, open) == IF ~dis THEN TRUE ELSE open

FocusInput ==
    /\ ~focused
    /\ focused' = TRUE
    /\ isOpen' = OnFocus(disabled, isOpen)
    /\ selEvent' = Event("focus", NoItem, <<>>)
    /\ selView' = SelectRender(items, disabled, query, isOpen')
    /\ UNCHANGED <<items, disabled, query, selectedItem, timers>>
    /\ UNCHANGED <<apiVars, sessionVars, cartVars, appVars, uiVars,
                   serverVars>>

\* onBlur={() => setTimeout(() => setIsOpen(false), BLUR_CLOSE_DELAY_MS)}
BlurInput ==
    /\ focused
    /\ Len(timers) < MaxTimers
    /\ focused' = FALSE
    /\ timers' = Append(timers, BLUR_CLOSE_DELAY_MS)
    /\ selEvent' = Event("blur", NoItem, <<>>)
    /\ selView' = SelectRender(items, disabled, query, isOpen)
    /\ UNCHANGED <<items, disabled, query, isOpen, selectedItem>>
    /\ UNCHANGED <<apiVars, sessionVars, cartVars, appVars, uiVars,
                   serverVars>>

\* The timeout of a blur fires: setIsOpen(false).  Nothing cancels a timeout.
BlurTimeout ==
    /\ timers # <<>>
    /\ Head(timers) <= 0
    /\ timers' = Tail(timers)
    /\ isOpen' = FALSE
    /\ selEvent' = Event("timeout", NoItem, <<>>)
    /\ selView' = SelectRender(items, disabled, query, FALSE)
    /\ UNCHANGED <<items, disabled, query, selectedItem, focused>>
    /\ UNCHANGED <<apiVars, sessionVars, cartVars, appVars, uiVars,
                   serverVars>>

\* TickMs pass while timeouts are pending; a timeout that is due fires first.
Tick ==
    /\ timers # <<>>
    /\ \A i \in 1..Len(timers) : timers[i] > 0
    /\ timers' = [i \in 1..Len(timers) |-> timers[i] - TickMs]
    /\ selEvent' = Event("time", NoItem, <<>>)
    /\ selView' = SelectRender(items, disabled, query, isOpen)
    /\ UNCHANGED <<items, disabled, query, isOpen, selectedItem, focused>>
    /\ UNCHANGED <<apiVars, sessionVars, cartVars, appVars, uiVars,
                   serverVars>>

\* onChange={(e) => { setQuery(e.target.value); setIsOpen(true); }}
ChangeInput(text) ==
    /\ focused
    /\ ~disabled
    /\ text # query
    /\ query' = text
    /\ isOpen' = TRUE
    /\ selEvent' = Event("change", NoItem, <<>>)
    /\ selView' = SelectRender(items, disabled, text, TRUE)
    /\ UNCHANGED <<items, disabled, selectedItem, focused, timers>>
    /\ UNCHANGED <<apiVars, sessionVars, cartVars, appVars, uiVars,
                   serverVars>>

\* Faulty variant: the selection leaves the list open.
HandleSelectKeepsOpen(item) ==
    [selectedItem |-> item, query |-> item.name, isOpen |-> isOpen,
     calls |-> <<item>>]

\* handleSelect(item): the state it sets and the onSelect calls it makes.
HandleSelect(item) ==
    [selectedItem |-> item, query |-> item.name, isOpen |-> FALSE,
     calls |-> <<item>>]

\* onMouseDown={() => handleSelect(item)} of a row on screen.
MouseDownRow(item) ==
    /\ selView.listbox
    /\ \E i \in 1..Len(selView.rows) : selView.rows[i] = item
    /\ LET s == HandleSelect(item)
       IN  /\ selectedItem' = s.selectedItem
           /\ query' = s.query
           /\ isOpen' = s.isOpen
           /\ selEvent' = Event("mousedown", item, s.calls)
    /\ selView' = SelectRender(items, disabled, query', isOpen')
    /\ UNCHANGED <<items, disabled, focused, timers>>
    /\ UNCHANGED <<apiVars, sessionVars, cartVars, appVars, uiVars,
                   serverVars>>

\* Faulty variant: the effect clears the text and keeps the selection.
ItemsEffectKeepsSelection == [query |-> <<>>, selectedItem |-> selectedItem]

\* useEffect(() => { setQuery(''); setSelectedItem(null); }, [items])
ItemsEffect == [query |-> <<>>, selectedItem |-> NoItem]

\* The caller renders the selector with a new `items` array; the effect runs.
SetItems(list) ==
    /\ items' = list
    /\ LET e == ItemsEffect
       IN  /\ query' = e.query
           /\ selectedItem' = e.selectedItem
    /\ selEvent' = Event("items", NoItem, <<>>)
    /\ selView' = SelectRender(list, disabled, query', isOpen)
    /\ UNCHANGED <<disabled, isOpen, focused, timers>>
    /\ UNCHANGED <<apiVars, sessionVars, cartVars, appVars, uiVars,
                   serverVars>>

\* The caller renders the selector with another `disabled`.
SetDisabled(dis) ==
    /\ dis # disabled
    /\ disabled' = dis
    /\ selEvent' = Event("disabled", NoItem, <<>>)
    /\ selView' = SelectRender(items, dis, query, isOpen)
    /\ UNCHANGED <<items, query, isOpen, selectedItem, focused, timers>>
    /\ UNCHANGED <<apiVars, sessionVars, cartVars, appVars, uiVars,
                   serverVars>>

(***************************************************************************)
(* The application tree: AuthenticatedProviders mounts CartProvider for an *)
(* authenticated session and unmounts it otherwise.  The calls of an       *)
(* unmounted CartProvider stay in flight; their handlers run on the        *)
(* setters of the unmounted instance.                                      *)
(***************************************************************************)
NoOrphan == [op |-> "none", kind |-> "pending", mounted |-> FALSE]

AppInit ==
    /\ cartOrphans = EmptyBag
    /\ orphanLast = NoOrphan

\* The state of the mounted CartProvider.
CartState == [cartEntries |-> cartEntries, error |-> cartError, loading |-> loading]

\* What the handler of the call req sets once the call has settled with p.
SettledState(req, p) ==
    LET s == CASE req.op = "getCart"        -> FetchCartSettled(p)
               [] req.op = "addToCart"      -> AddToCartSettled(p)
               [] req.op = "removeFromCart" -> RemoveFromCartSettled(req.arg, p)
               [] req.op = "clearCart"      -> ClearCartSettled(p)
    IN  [cartEntries |-> s.cartEntries, error |-> s.error,
         loading |-> IF req.op = "getCart" THEN s.loading ELSE loading]

\* Faulty variant: the update of an unmounted instance reaches the state on screen.
StateUpdateOfUnmountedApplied(state, update) == update

\* useState: a setter belongs to the instance that rendered it, and the update
\* of an unmounted instance is dropped; the state on screen stays as it is.
StateUpdateOfUnmounted(state, update) == state

\* The commit of a render without CartProvider: the mounted instance is
\* destroyed, its calls stay in flight.
CartProviderUnmount ==
    /\ ~view.cart
    /\ cartEffectRan
    /\ cartOrphans' = cartOrphans (+) cartPending
    /\ cartEntries' = <<>>
    /\ loading' = TRUE
    /\ cartError' = Null
    /\ cartEffectRan' = FALSE
    /\ cartPending' = EmptyBag
    /\ cartLast' = NoCartCall
    /\ UNCHANGED orphanLast
    /\ UNCHANGED <<apiVars, sessionVars, selectVars, uiVars,
                   serverVars>>

\* A call of an unmounted CartProvider settles and its handler runs.
OrphanSettle(req, resp) ==
    /\ BagIn(req, cartOrphans)
    /\ cartOrphans' = cartOrphans (-) SetToBag({req})
    /\ LET p == ApiCall(req.op, resp)
           s == StateUpdateOfUnmounted(CartState, SettledState(req, p))
       IN  /\ cartEntries' = s.cartEntries
           /\ cartError' = s.error
           /\ loading' = s.loading
           /\ orphanLast' = [op |-> req.op, kind |-> p.kind, mounted |-> view.cart]
    /\ UNCHANGED <<cartEffectRan, cartPending, cartLast>>
    /\ UNCHANGED <<apiVars, sessionVars, selectVars, uiVars,
                   serverVars>>

\* The responses of R the application is run against: a success with each
\* payload, and the failure that carries the message "Server error".
Plain(R) ==
    {r \in R : r.net /\ r.body.parses /\ (r.ok \/ r.body.error = "Server error")}

\* The tree on screen is committed: CartProvider is mounted, its mount effect
\* run, exactly when the last render held it.
Committed == view.cart = cartEffectRan

\* The user logs in from the login form, shown to a session that is not
\* authenticated, and logs out from the header of an authenticated one; one
\* such call is made at a time.
LoginFormShown    == ~isLoading /\ ~isAuthenticated /\ authPending = EmptyBag
LogoutButtonShown ==
    /\ ~isLoading /\ isAuthenticated /\ authPending = EmptyBag
    /\ cartOrphans = EmptyBag

\* A consumer of the mounted cart store makes a call when none of the store's
\* calls is in flight.
ConsumerIdle ==
    view.cart /\ cartPending = EmptyBag /\ cartOrphans = EmptyBag

\* GET /cart in the application: a failure, or a list of at most one entry.
AppGetCartResponses ==
    {r \in Plain(GetCartResponses) : r.ok => Len(r.body.data) <= 1}

\* The responses the server may give to the call req.
ResponsesTo(req) ==
    CASE req.op = "getCart"   -> AppGetCartResponses
      [] req.op = "addToCart" -> Plain(AddToCartResponses)
      [] OTHER                -> Plain(AckResponses)

(***************************************************************************)
(* The login form (LoginForm).  A credential is a sequence of characters,  *)
(* blanks among them.                                                      *)
(***************************************************************************)
FormChars   == {" ", "u"}
Credentials == SeqsUpTo(FormChars, MaxCredential)

\* String.prototype.trim: the text without its leading and trailing blanks.
RECURSIVE TrimStart(_), TrimEnd(_)
TrimStart(s) == IF s # <<>> /\ Head(s) = " " THEN TrimStart(Tail(s)) ELSE s
TrimEnd(s) ==
    IF s # <<>> /\ s[Len(s)] = " " THEN TrimEnd(SubSeq(s, 1, Len(s) - 1)) ELSE s
Trim(s) == TrimEnd(TrimStart(s))

\* Faulty variant: the fields are compared as typed.
isFormValidUntrimmed(username, password) == username # <<>> /\ password # <<>>

\* const isFormValid = username.trim() !== '' && password.trim() !== ''
isFormValid(username, password) == Trim(username) # <<>> /\ Trim(password) # <<>>

FormEvent(type, called, pushed) == [type |-> type, called |-> called, pushed |-> pushed]

\* What the form's JSX puts on screen for the state f.
LoginFormRender(f) ==
    [usernameDisabled |-> f.isLoading,
     passwordDisabled |-> f.isLoading,
     submitDisabled   |-> ~isFormValid(f.username, f.password) \/ f.isLoading,
     errorShown       |-> f.error # "",
     button           |-> IF f.isLoading THEN "Signing in..." ELSE "Login"]

LoginFormInit ==
    /\ loginForm = [username |-> <<>>, password |-> <<>>, error |-> "",
                    isLoading |-> FALSE]
    /\ formLast = FormEvent("none", FALSE, FALSE)

\* The form is the page at /login, below the session store and the guard.
LoginFormMounted == view.page = "/login"

\* onChange of the username input, which takes no input while it is disabled.
ChangeUsername(text) ==
    /\ LoginFormMounted
    /\ ~LoginFormRender(loginForm).usernameDisabled
    /\ loginForm' = [loginForm EXCEPT !.username = text]
    /\ formLast' = FormEvent("change", FALSE, FALSE)
    /\ UNCHANGED <<apiVars, sessionVars, cartVars, selectVars, appVars, toastVars, pageVars, saveVars,
                   serverVars>>

\* onChange of the password input.
ChangePassword(text) ==
    /\ LoginFormMounted
    /\ ~LoginFormRender(loginForm).passwordDisabled
    /\ loginForm' = [loginForm EXCEPT !.password = text]
    /\ formLast' = FormEvent("change", FALSE, FALSE)
    /\ UNCHANGED <<apiVars, sessionVars, cartVars, selectVars, appVars, toastVars, pageVars, saveVars,
                   serverVars>>

\* Faulty variant: the error of the earlier attempt is left in place.
HandleSubmitStartKeepingError(f, valid) == [f EXCEPT !.isLoading = valid]

\* The state updates of handleSubmit before its await: setError(''), and
\* setIsLoading(true) for a valid form.
HandleSubmitStart(f, valid) == [f EXCEPT !.error = "", !.isLoading = valid]

\* handleSubmit up to its await: setError(''), and for a valid form
\* setIsLoading(true) and the call of the session store's login, which runs
\* up to its own await (setError(null), api.login issued).  A submit event
\* reaches the handler of a form with or without valid fields; while the form
\* is loading every control of it is disabled and none originates from it.
SubmitForm ==
    /\ LoginFormMounted
    /\ ~loginForm.isLoading
    /\ LET valid == isFormValid(loginForm.username, loginForm.password)
       IN  /\ loginForm' = HandleSubmitStart(loginForm, valid)
           /\ formLast' = FormEvent("submit", valid, FALSE)
           /\ IF valid
              THEN /\ authError' = Null
                   /\ authPending' = authPending (+) SetToBag({"login"})
              ELSE UNCHANGED <<authError, authPending>>
    /\ UNCHANGED <<isAuthenticated, isLoading, authEffectRan, authLast, pathname, view>>
    /\ UNCHANGED <<apiVars, cartVars, selectVars, appVars, toastVars, pageVars, saveVars,
                   serverVars>>

\* Faulty variant: the form leaves for "/" however login settled.
HandleSubmitSettledAlwaysPushing(outcome, message, error) ==
    [push |-> TRUE,
     error |-> IF outcome = "resolved" THEN error ELSE OrElse(message, "Failed to login"),
     isLoading |-> FALSE]

\* The rest of handleSubmit once login has settled: router.push('/') after
\* the await, setError(err.message || 'Failed to login') in the catch, and
\* setIsLoading(false) in the finally.
HandleSubmitSettled(outcome, message, error) ==
    IF outcome = "resolved"
    THEN [push |-> TRUE, error |-> error, isLoading |-> FALSE]
    ELSE [push |-> FALSE, error |-> OrElse(message, "Failed to login"),
          isLoading |-> FALSE]

\* api.login settles with p; the session store's login runs its try/catch and
\* settles in turn, and the form's handleSubmit runs to its end.
FormLoginSettle(p) ==
    /\ BagIn("login", authPending)
    /\ LET s == LoginSettled(p)
           h == HandleSubmitSettled(s.outcome, s.thrown, loginForm.error)
       IN  /\ isAuthenticated' = s.isAuthenticated
           /\ authError' = s.error
           /\ authLast' = [op |-> "login", api |-> Outcome(p),
                           outcome |-> s.outcome, thrown |-> s.thrown,
                           was |-> isAuthenticated]
           /\ pathname' = IF h.push THEN "/" ELSE pathname
           /\ loginForm' = [loginForm EXCEPT !.error = h.error,
                                             !.isLoading = h.isLoading]
           /\ formLast' = FormEvent("settle", FALSE, h.push)
    /\ authPending' = authPending (-) SetToBag({"login"})
    /\ view' = Render(isLoading, isAuthenticated', pathname')
    /\ UNCHANGED <<isLoading, authEffectRan>>
    /\ UNCHANGED <<apiVars, cartVars, selectVars, appVars, toastVars, pageVars, saveVars,
                   serverVars>>

\* What api.login settles with: the outcomes of the API client, and an Error
\* without a message, which the form's catch provides for.
LoginPromises ==
    {ApiCall("login", resp) : resp \in AuthResponses} \cup {Rejected("")}

(***************************************************************************)
(* The toast (Toast).  Its effect sets one timeout when the toast is made  *)
(* visible and clears it in its cleanup; time advances in steps, and a     *)
(* timeout that is due fires before time advances further.                 *)
(***************************************************************************)
DEFAULT_DURATION_MS == 3000
CustomDurationMs    == 5000
CustomDelayMs       == 500
ToastTickMs         == CustomDelayMs

ToastDurations == {DEFAULT_DURATION_MS, CustomDurationMs}
ToastDelays    == {0, CustomDelayMs}
NoTimer        == -1

\* The props of a toast: isVisible and duration, which the component reads,
\* and the delay its callers pass, which it does not declare.
ToastProps(mounted, isVisible, duration, delay) ==
    [mounted |-> mounted, isVisible |-> isVisible, duration |-> duration,
     delay |-> delay]

ToastInit ==
    /\ toast = ToastProps(FALSE, FALSE, DEFAULT_DURATION_MS, 0)
    /\ toastTimer = NoTimer
    /\ toastClock = 0
    /\ toastCloses = 0

\* if (!isVisible) return null; return <div ...>{message}</div>
ToastRender(t) == IF ~t.mounted \/ ~t.isVisible THEN "null" ELSE "message"

\* The effect on [isVisible, duration]: a timeout of `duration` for a visible
\* toast, none otherwise.
ToastEffect(isVisible, duration) == IF isVisible THEN duration ELSE NoTimer

\* Faulty variant: the cleanup leaves the timeout pending.
ToastEffectCleanupKeeping(timer) == timer

\* The effect's cleanup: clearTimeout(timer).
ToastEffectCleanup(timer) == NoTimer

\* The toast is mounted, visible or hidden; its effect runs.
ToastMount(isVisible, duration, delay) ==
    /\ ~toast.mounted
    /\ toast' = ToastProps(TRUE, isVisible, duration, delay)
    /\ toastTimer' = IF isVisible THEN ToastEffect(isVisible, duration) ELSE toastTimer
    /\ toastClock' = IF isVisible THEN 0 ELSE toastClock
    /\ toastCloses' = IF isVisible THEN 0 ELSE toastCloses
    /\ UNCHANGED <<apiVars, sessionVars, cartVars, selectVars, appVars, formVars, pageVars, saveVars,
                   serverVars>>

\* The parent renders the hidden toast with isVisible = true: the effect runs.
ToastShow(duration, delay) ==
    /\ toast.mounted /\ ~toast.isVisible
    /\ toast' = ToastProps(TRUE, TRUE, duration, delay)
    /\ toastTimer' = ToastEffect(TRUE, duration)
    /\ toastClock' = 0
    /\ toastCloses' = 0
    /\ UNCHANGED <<apiVars, sessionVars, cartVars, selectVars, appVars, formVars, pageVars, saveVars,
                   serverVars>>

\* The parent renders the visible toast with isVisible = false: the cleanup of
\* the effect runs, and the effect sets no timeout.
ToastHide ==
    /\ toast.mounted /\ toast.isVisible
    /\ toast' = [toast EXCEPT !.isVisible = FALSE]
    /\ toastTimer' = ToastEffectCleanup(toastTimer)
    /\ UNCHANGED <<toastClock, toastCloses>>
    /\ UNCHANGED <<apiVars, sessionVars, cartVars, selectVars, appVars, formVars, pageVars, saveVars,
                   serverVars>>

\* The toast is unmounted: the cleanup of the effect runs if the effect had
\* returned one.
ToastUnmount ==
    /\ toast.mounted
    /\ toast' = [toast EXCEPT !.mounted = FALSE, !.isVisible = FALSE]
    /\ toastTimer' = IF toast.isVisible THEN ToastEffectCleanup(toastTimer)
                     ELSE toastTimer
    /\ UNCHANGED <<toastClock, toastCloses>>
    /\ UNCHANGED <<apiVars, sessionVars, cartVars, selectVars, appVars, formVars, pageVars, saveVars,
                   serverVars>>

\* The timeout fires: onCloseRef.current() is called.  The parent's onClose
\* hides the toast or leaves it visible.
ToastTimeout(hides) ==
    /\ toastTimer = 0
    /\ toastCloses' = toastCloses + 1
    /\ toastTimer' = NoTimer
    /\ toast' = IF hides THEN [toast EXCEPT !.isVisible = FALSE] ELSE toast
    /\ UNCHANGED toastClock
    /\ UNCHANGED <<apiVars, sessionVars, cartVars, selectVars, appVars, formVars, pageVars, saveVars,
                   serverVars>>

\* Time advances by one step.
ToastTick ==
    /\ toastTimer # 0
    /\ toastClock < MaxTicks * ToastTickMs
    /\ toastClock' = toastClock + ToastTickMs
    /\ toastTimer' = IF toastTimer = NoTimer THEN NoTimer
                     ELSE toastTimer - ToastTickMs
    /\ UNCHANGED <<toast, toastCloses>>
    /\ UNCHANGED <<apiVars, sessionVars, cartVars, selectVars, appVars, formVars, pageVars, saveVars,
                   serverVars>>

(***************************************************************************)
(* The equipment page: the rows of EquipmentList, each selected or not and *)
(* with a quantity, and the school and grade chosen above them.  The page  *)
(* holds the selection and the quantities and passes them down.            *)
(***************************************************************************)
MIN_QUANTITY == 0
MAX_QUANTITY == 99

EquipmentItem(id, name, quantity) == [id |-> id, name |-> name, quantity |-> quantity]
EquipmentItems == <<EquipmentItem(1, "Notebook", 5), EquipmentItem(2, "Pencil", 10)>>
EquipmentIds   == {EquipmentItems[i].id : i \in DOMAIN EquipmentItems}

\* What is typed into a quantity input, as the number the input holds.
TypedQuantities == {-5, 0, 7, 99, 100, 150}

NoChoice    == 0
Choices     == {NoChoice, 1}
NoTyped     == [id |-> 0, typed |-> 0, reported |-> 0]

\* Faulty variant: only the lower bound is enforced.
ClampQuantityFromBelow(v) == IF v < MIN_QUANTITY THEN MIN_QUANTITY ELSE v

\* The typed quantity, brought into [MIN_QUANTITY, MAX_QUANTITY].
ClampQuantity(v) ==
    IF v < MIN_QUANTITY THEN MIN_QUANTITY
    ELSE IF v > MAX_QUANTITY THEN MAX_QUANTITY ELSE v

\* The quantities the equipment list gives its rows.
DefaultQuantities ==
    [id \in EquipmentIds |->
        LET i == CHOOSE k \in DOMAIN EquipmentItems : EquipmentItems[k].id = id
        IN  EquipmentItems[i].quantity]

\* The page as it is loaded: nothing chosen, every row with the quantity the
\* equipment list gives it.
PageInit ==
    /\ school = NoChoice
    /\ grade = NoChoice
    /\ selectedIds = {}
    /\ quantities = DefaultQuantities
    /\ equipLast = NoTyped

\* A school or a grade is chosen, or the choice is cleared.
ChooseSchool(c) ==
    /\ school' = c
    /\ UNCHANGED <<grade, selectedIds, quantities, equipLast>>
    /\ UNCHANGED <<apiVars, sessionVars, cartVars, selectVars, appVars, formVars, toastVars, saveVars,
                   serverVars>>

ChooseGrade(c) ==
    /\ grade' = c
    /\ UNCHANGED <<school, selectedIds, quantities, equipLast>>
    /\ UNCHANGED <<apiVars, sessionVars, cartVars, selectVars, appVars, formVars, toastVars, saveVars,
                   serverVars>>

\* The checkbox of a row: onToggle(id), and the page selects or unselects it.
ToggleItem(id) ==
    /\ selectedIds' = IF id \in selectedIds THEN selectedIds \ {id}
                      ELSE selectedIds \cup {id}
    /\ UNCHANGED <<school, grade, quantities, equipLast>>
    /\ UNCHANGED <<apiVars, sessionVars, cartVars, selectVars, appVars, formVars, toastVars, saveVars,
                   serverVars>>

\* A quantity is typed into the input of a selected row (the input of an
\* unselected row is disabled): onQuantityChange(id, clamped), and the page
\* stores what it was given.
TypeQuantity(id, v) ==
    /\ id \in selectedIds
    /\ LET reported == ClampQuantity(v)
       IN  /\ equipLast' = [id |-> id, typed |-> v, reported |-> reported]
           /\ quantities' = [quantities EXCEPT ![id] = reported]
    /\ UNCHANGED <<school, grade, selectedIds>>
    /\ UNCHANGED <<apiVars, sessionVars, cartVars, selectVars, appVars, formVars, toastVars, saveVars,
                   serverVars>>

(***************************************************************************)
(* The save control (SaveToCartButton), below the cart store.  It gets the *)
(* page's school, grade, selection and quantities as props.                *)
(***************************************************************************)
SAVED_DURATION_MS == 3000
SaveTickMs        == SAVED_DURATION_MS \div 2

\* The quantities of the rows the control is rendered with.
SaveQuantities == {0, 5, MAX_QUANTITY}

NoClick == [clicked |-> FALSE, called |-> FALSE, items |-> <<>>]

\* Faulty variant: every selected row is taken, whatever its quantity.
RECURSIVE QualifyingKeepingZero(_, _, _)
QualifyingKeepingZero(l, sel, qty) ==
    IF l = <<>> THEN <<>>
    ELSE LET rest == QualifyingKeepingZero(Tail(l), sel, qty)
         IN  IF Head(l).id \in sel THEN <<Head(l)>> \o rest ELSE rest

\* The rows of the list l that are selected with a quantity above 0.
RECURSIVE Qualifying(_, _, _)
Qualifying(l, sel, qty) ==
    IF l = <<>> THEN <<>>
    ELSE LET rest == Qualifying(Tail(l), sel, qty)
         IN  IF Head(l).id \in sel /\ qty[Head(l).id] > 0
             THEN <<Head(l)>> \o rest ELSE rest

\* The payload of a save: the qualifying rows in the order of the list, each
\* with its id, its name and the quantity of the quantities map.
BuildPayload(sch, grd, sel, qty) ==
    LET rows == Qualifying(EquipmentItems, sel, qty)
    IN  [school |-> sch, grade |-> grd,
         items |-> [i \in 1..Len(rows) |->
                      EquipmentItem(rows[i].id, rows[i].name, qty[rows[i].id])]]

\* Faulty variant: the grade is not looked at.
SaveDisabledIgnoringGrade(sch, grd, sel, qty, b) ==
    \/ sch = NoChoice
    \/ Qualifying(EquipmentItems, sel, qty) = <<>>
    \/ b.disabled
    \/ b.saved

\* The `disabled` attribute of the button.
SaveDisabled(sch, grd, sel, qty, b) ==
    \/ sch = NoChoice
    \/ grd = NoChoice
    \/ Qualifying(EquipmentItems, sel, qty) = <<>>
    \/ b.disabled
    \/ b.saved

SaveRender ==
    [disabled |-> SaveDisabled(school, grade, selectedIds, quantities, saveButton),
     text     |-> IF saveButton.saved THEN "Saved!" ELSE "Save to Cart"]

\* Faulty variant: the click handler runs for a disabled button too.
ClickReachesAlways(disabledNow) == TRUE

\* A click on a disabled button does not reach its onClick handler.
ClickReaches(disabledNow) == ~disabledNow

SaveInit ==
    /\ saveButton = [disabled |-> FALSE, saved |-> FALSE]
    /\ saveTimer = NoTimer
    /\ saveLast = NoClick

\* A click is delivered to the button.  The handler calls addToCart(payload)
\* of the cart store, which runs up to its await (setError(null), the call is
\* issued), and enters the confirmation at once, without awaiting the call;
\* a timeout will end the confirmation.
SaveClick ==
    /\ cartEffectRan
    /\ IF ClickReaches(SaveRender.disabled)
       THEN /\ BagCardinality(cartPending) < MaxInFlight
            /\ Len(cartEntries) + PendingAdds < MaxCart
            /\ cartError' = Null
            /\ cartPending' = cartPending (+) SetToBag({AddToCartReq})
            /\ saveButton' = [saveButton EXCEPT !.saved = TRUE]
            /\ saveTimer' = SAVED_DURATION_MS
            /\ saveLast' = [clicked |-> TRUE, called |-> TRUE,
                            items |-> BuildPayload(school, grade, selectedIds,
                                                   quantities).items]
       ELSE /\ saveLast' = [clicked |-> TRUE, called |-> FALSE, items |-> <<>>]
            /\ UNCHANGED <<cartError, cartPending, saveButton, saveTimer>>
    /\ UNCHANGED <<cartEntries, loading, cartEffectRan, cartLast>>
    /\ UNCHANGED <<apiVars, sessionVars, selectVars, appVars, formVars, toastVars, pageVars,
                   serverVars>>

\* The timeout fires: the confirmation ends.
SaveTimeout ==
    /\ saveTimer = 0
    /\ saveButton' = [saveButton EXCEPT !.saved = FALSE]
    /\ saveTimer' = NoTimer
    /\ UNCHANGED saveLast
    /\ UNCHANGED <<apiVars, sessionVars, cartVars, selectVars, appVars, formVars, toastVars, pageVars,
                   serverVars>>

\* Time advances by one step while the confirmation is shown.
SaveTick ==
    /\ saveTimer > 0
    /\ saveTimer' = saveTimer - SaveTickMs
    /\ UNCHANGED <<saveButton, saveLast>>
    /\ UNCHANGED <<apiVars, sessionVars, cartVars, selectVars, appVars, formVars, toastVars, pageVars,
                   serverVars>>

UiInit == LoginFormInit /\ ToastInit /\ PageInit /\ SaveInit

(***************************************************************************)
(* The backend behind the API client.  It is not part of this repository   *)
(* and is modelled by what the client's requests ask of it: a session that *)
(* POST /auth/login starts, POST /auth/logout ends and GET /auth/status    *)
(* reports, and a cart list that GET /cart returns and the other cart      *)
(* requests change, every new entry getting an id of its own.  A request   *)
(* in flight is first answered by the server and its answer is delivered   *)
(* to the client in a later step, so answers may arrive in another order   *)
(* than the requests were handled in.                                      *)
(***************************************************************************)
ServerEntry(i) == [id |-> i, timestamp |-> TimestampOf(i)]

\* The lists the server may hold when the page is opened: entries it has
\* created, in the order it created them.
ServerCarts == {[i \in 1..n |-> ServerEntry(i)] : n \in 0..(MaxCart - 1)}

ServerInit(session, cart) ==
    /\ serverSession = session
    /\ serverCart = cart
    /\ serverNextId = Len(cart) + 1
    /\ serverAnswers = <<>>
    /\ reloadedAfter = "none"
    /\ failedSince = FALSE

\* What becomes of a request: it is carried out and answered with a success
\* status; it is refused with an error status; it never reaches the server;
\* or it is carried out and its answer is lost on the way back.
Fates == {"ok", "refused", "unsent", "lost"}
Applied(fate) == fate \in {"ok", "lost"}

\* The HTTP outcome the client's fetch sees.
ServerResponse(fate, data) ==
    CASE fate = "ok"      -> Response(TRUE, TRUE, Body(TRUE, Absent, data))
      [] fate = "refused" -> Response(TRUE, FALSE, Body(TRUE, "Server error", Ack))
      [] OTHER            -> Response(FALSE, FALSE, Body(FALSE, Absent, Ack))

\* GET /auth/status without a valid session: an error status, no error field.
NotAuthenticatedResponse == Response(TRUE, FALSE, Body(TRUE, Absent, Ack))

\* The request req, of which n are in flight, has a copy the server has not
\* answered yet.
Unserved(req, n) ==
    n > Cardinality({i \in 1..Len(serverAnswers) : serverAnswers[i].req = req})

WithoutAnswer(i) ==
    [j \in 1..(Len(serverAnswers) - 1) |->
        IF j < i THEN serverAnswers[j] ELSE serverAnswers[j + 1]]

\* The server handles a session request.
ServerAuthHandle(op, fate) ==
    /\ Unserved(Request(op, 0), CopiesIn(op, authPending))
    /\ serverSession' = CASE op = "login" /\ Applied(fate)  -> TRUE
                          [] op = "logout" /\ Applied(fate) -> FALSE
                          [] OTHER                          -> serverSession
    /\ serverAnswers' = Append(serverAnswers,
            [req  |-> Request(op, 0),
             resp |-> IF op = "checkAuth" /\ fate = "ok" /\ ~serverSession
                      THEN NotAuthenticatedResponse
                      ELSE ServerResponse(fate, Ack)])
    /\ UNCHANGED <<serverCart, serverNextId, reloadedAfter, failedSince>>
    /\ UNCHANGED <<apiVars, sessionVars, cartVars, selectVars, appVars, uiVars>>

\* What the continuation of the session operation op sets once its call has
\* settled with p.
AuthSettledState(op, p) ==
    CASE op = "checkAuth" ->
            [isAuthenticated |-> CheckAuthSettled(p).isAuthenticated,
             isLoading |-> CheckAuthSettled(p).isLoading, error |-> authError,
             outcome |-> "resolved", thrown |-> ""]
      [] op = "login" ->
            [isAuthenticated |-> LoginSettled(p).isAuthenticated,
             isLoading |-> isLoading, error |-> LoginSettled(p).error,
             outcome |-> LoginSettled(p).outcome, thrown |-> LoginSettled(p).thrown]
      [] op = "logout" ->
            [isAuthenticated |-> LogoutSettled(p).isAuthenticated,
             isLoading |-> isLoading, error |-> authError,
             outcome |-> LogoutSettled(p).outcome, thrown |-> LogoutSettled(p).thrown]

\* The answer i of the server reaches the session operation that awaits it.
AuthDeliver(i) ==
    LET a == serverAnswers[i]
        p == ApiCall(a.req.op, a.resp)
        s == AuthSettledState(a.req.op, p)
    IN  /\ BagIn(a.req.op, authPending)
        /\ isAuthenticated' = s.isAuthenticated
        /\ isLoading' = s.isLoading
        /\ authError' = s.error
        /\ authLast' = [op |-> a.req.op, api |-> Outcome(p), outcome |-> s.outcome,
                        thrown |-> s.thrown, was |-> isAuthenticated]
        /\ authPending' = authPending (-) SetToBag({a.req.op})
        /\ view' = Render(s.isLoading, s.isAuthenticated, pathname)
        /\ serverAnswers' = WithoutAnswer(i)
        /\ UNCHANGED <<authEffectRan, pathname>>
        /\ UNCHANGED <<serverSession, serverCart, serverNextId, reloadedAfter,
                       failedSince>>
        /\ UNCHANGED <<apiVars, cartVars, selectVars, appVars, uiVars>>

\* The page is reloaded while no session call is in flight: AuthProvider is
\* constructed anew, with the initial values of its state, and its mount
\* effect will run again; the browser keeps its cookie.
Reload ==
    /\ authEffectRan
    /\ authLast.op # "none"
    /\ authPending = EmptyBag
    /\ isAuthenticated' = FALSE
    /\ isLoading' = TRUE
    /\ authError' = Null
    /\ authEffectRan' = FALSE
    /\ authLast' = NoCall
    /\ view' = Render(TRUE, FALSE, pathname)
    /\ reloadedAfter' = authLast.op
    /\ UNCHANGED <<authPending, pathname>>
    /\ UNCHANGED <<serverSession, serverCart, serverNextId, serverAnswers,
                   failedSince>>
    /\ UNCHANGED <<apiVars, cartVars, selectVars, appVars, uiVars>>

\* The list the server holds once it has carried out the cart request req.
ServerCartAfter(req) ==
    CASE req.op = "getCart"        -> serverCart
      [] req.op = "addToCart"      -> Append(serverCart, ServerEntry(serverNextId))
      [] req.op = "removeFromCart" -> SelectSeq(serverCart, LAMBDA e : e.id # req.arg)
      [] req.op = "clearCart"      -> <<>>

\* The payload of its answer to req.
ServerCartPayload(req) ==
    CASE req.op = "getCart"   -> serverCart
      [] req.op = "addToCart" -> ServerEntry(serverNextId)
      [] OTHER                -> Ack

\* The server handles a cart request; it creates an entry only while it has
\* an id left to give.
ServerCartHandle(req, fate) ==
    /\ Unserved(req, CopiesIn(req, cartPending))
    /\ (req.op = "addToCart" /\ Applied(fate)) => serverNextId <= MaxCart
    /\ serverCart' = IF Applied(fate) THEN ServerCartAfter(req) ELSE serverCart
    /\ serverNextId' = IF req.op = "addToCart" /\ Applied(fate)
                       THEN serverNextId + 1 ELSE serverNextId
    /\ serverAnswers' = Append(serverAnswers,
            [req |-> req, resp |-> ServerResponse(fate, ServerCartPayload(req))])
    /\ UNCHANGED <<serverSession, reloadedAfter, failedSince>>
    /\ UNCHANGED <<apiVars, sessionVars, cartVars, selectVars, appVars, uiVars>>

\* The answer i of the server reaches the cart operation that awaits it.
CartDeliver(i) ==
    LET a == serverAnswers[i]
        p == ApiCall(a.req.op, a.resp)
        s == SettledState(a.req, p)
    IN  /\ BagIn(a.req, cartPending)
        /\ cartEntries' = s.cartEntries
        /\ cartError' = s.error
        /\ loading' = s.loading
        /\ cartLast' = [op |-> a.req.op, arg |-> a.req.arg, api |-> Outcome(p),
                        outcome |-> "resolved", returned |-> <<>>, prev |-> <<>>]
        /\ cartPending' = cartPending (-) SetToBag({a.req})
        /\ serverAnswers' = WithoutAnswer(i)
        /\ failedSince' = IF p.kind = "reject" THEN TRUE
                          ELSE IF a.req.op \in {"getCart", "clearCart"} THEN FALSE
                          ELSE failedSince
        /\ UNCHANGED <<cartEffectRan, serverSession, serverCart, serverNextId,
                       reloadedAfter>>
        /\ UNCHANGED <<apiVars, sessionVars, selectVars, appVars, uiVars>>

(***************************************************************************)
(* Specifications.                                                         *)
(***************************************************************************)
Init ==
    /\ ApiInit /\ SessionInit /\ CartInit /\ SelectorInit(<<>>, FALSE)
    /\ AppInit /\ UiInit /\ ServerInit(FALSE, <<>>)

ApiNext ==
    \/ \E op \in Ops : ApiCallStart(op)
    \/ \E resp \in Responses(ApiPayloads) : ApiFetchSettle(resp)
    \/ ApiReturn
    \/ ApiDone

SessionNext ==
    \/ AuthMountEffect
    \/ \E resp \in AuthResponses : CheckAuthSettle(resp)
    \/ Login
    \/ \E resp \in AuthResponses : LoginSettle(resp)
    \/ Logout
    \/ \E resp \in AuthResponses : LogoutSettle(resp)
    \/ \E path \in Paths : Navigate(path)
    \/ RedirectEffect

CartNext ==
    \/ CartMountEffect
    \/ RefreshCart
    \/ \E resp \in GetCartResponses : FetchCartSettle(resp)
    \/ AddToCart
    \/ \E resp \in AddToCartResponses : AddToCartSettle(resp)
    \/ \E id \in EntryIds : RemoveFromCart(id)
    \/ \E id \in EntryIds : \E resp \in AckResponses : RemoveFromCartSettle(id, resp)
    \/ ClearCart
    \/ \E resp \in AckResponses : ClearCartSettle(resp)

\* The page is loaded at any path; the specifications that leave the session
\* store alone load it at "/".
InitAtRoot == Init /\ pathname = "/"

SpecApi     == InitAtRoot /\ [][ApiNext]_vars
SpecSession == Init /\ [][SessionNext]_vars
SpecCart    == InitAtRoot /\ [][CartNext]_vars

\* The session store with the cart store below it.  A render is followed at
\* once by its commit (the unmount of a dropped CartProvider, the mount effect
\* of a new one); the consumers of the cart store exist while it is mounted.
AppNext ==
    \/ CartProviderUnmount
    \/ view.cart /\ CartMountEffect
    \/ Committed /\ AuthMountEffect
    \/ Committed /\ \E resp \in Plain(AuthResponses) : CheckAuthSettle(resp)
    \/ Committed /\ LoginFormShown /\ Login
    \/ Committed /\ \E resp \in Plain(AuthResponses) : LoginSettle(resp)
    \/ Committed /\ LogoutButtonShown /\ Logout
    \/ Committed /\ \E resp \in Plain(AuthResponses) : LogoutSettle(resp)
    \/ Committed /\ ConsumerIdle /\ RefreshCart
    \/ Committed /\ view.cart /\ \E resp \in AppGetCartResponses : FetchCartSettle(resp)
    \/ Committed /\ ConsumerIdle /\ AddToCart
    \/ Committed /\ view.cart /\ \E resp \in Plain(AddToCartResponses) : AddToCartSettle(resp)
    \/ Committed /\ ConsumerIdle
                 /\ \E id \in EntryIds : RemoveFromCart(id)
    \/ Committed /\ view.cart
                 /\ \E id \in EntryIds : \E resp \in Plain(AckResponses) :
                        RemoveFromCartSettle(id, resp)
    \/ Committed /\ ConsumerIdle /\ ClearCart
    \/ Committed /\ view.cart /\ \E resp \in Plain(AckResponses) : ClearCartSettle(resp)
    \/ Committed /\ \E req \in DOMAIN cartOrphans :
                        \E resp \in ResponsesTo(req) : OrphanSettle(req, resp)

SpecApp == InitAtRoot /\ [][AppNext]_vars

\* The login page: the session store checks the session and the form below it
\* is filled in and submitted.
InitLogin == Init /\ pathname = "/login"

LoginNext ==
    \/ AuthMountEffect
    \/ \E resp \in Plain(AuthResponses) : CheckAuthSettle(resp)
    \/ \E text \in Credentials : ChangeUsername(text)
    \/ \E text \in Credentials : ChangePassword(text)
    \/ SubmitForm
    \/ \E p \in LoginPromises : FormLoginSettle(p)

SpecLogin == InitLogin /\ [][LoginNext]_vars

\* A toast that its parent mounts, shows, hides and unmounts as time passes.
ToastNext ==
    \/ \E v \in BOOLEAN : \E d \in ToastDurations : \E delay \in ToastDelays :
           ToastMount(v, d, delay)
    \/ \E d \in ToastDurations : \E delay \in ToastDelays : ToastShow(d, delay)
    \/ ToastHide
    \/ ToastUnmount
    \/ \E hides \in BOOLEAN : ToastTimeout(hides)
    \/ ToastTick

SpecToast == InitAtRoot /\ [][ToastNext]_vars

\* The equipment page: a school and a grade are chosen, rows are selected and
\* quantities typed.
EquipmentNext ==
    \/ \E c \in Choices : ChooseSchool(c)
    \/ \E c \in Choices : ChooseGrade(c)
    \/ \E id \in EquipmentIds : ToggleItem(id)
    \/ \E id \in EquipmentIds : \E v \in TypedQuantities : TypeQuantity(id, v)

SpecEquipment == InitAtRoot /\ [][EquipmentNext]_vars

\* The save control below a mounted cart store, rendered with any school,
\* grade, selection, quantities and `disabled` prop.
InitSave ==
    /\ ApiInit /\ SessionInit /\ CartInit /\ pathname = "/"
    /\ SelectorInit(<<>>, FALSE) /\ AppInit /\ ServerInit(FALSE, <<>>)
    /\ LoginFormInit /\ ToastInit
    /\ school \in Choices
    /\ grade \in Choices
    /\ selectedIds \in SUBSET EquipmentIds
    /\ quantities \in [EquipmentIds -> SaveQuantities]
    /\ equipLast = NoTyped
    /\ saveButton \in [disabled : BOOLEAN, saved : {FALSE}]
    /\ saveTimer = NoTimer
    /\ saveLast = NoClick

SaveNext ==
    \/ CartMountEffect
    \/ \E resp \in AppGetCartResponses : FetchCartSettle(resp)
    \/ SaveClick
    \/ \E resp \in Plain(AddToCartResponses) : AddToCartSettle(resp)
    \/ SaveTimeout
    \/ SaveTick

SpecSave == InitSave /\ [][SaveNext]_vars

\* The selector is mounted with one of the candidate lists, enabled or disabled.
InitSelect ==
    /\ ApiInit /\ SessionInit /\ CartInit /\ pathname = "/"
    /\ AppInit /\ UiInit /\ ServerInit(FALSE, <<>>)
    /\ \E list \in Catalogs : \E dis \in BOOLEAN : SelectorInit(list, dis)

SelectNext ==
    \/ FocusInput
    \/ BlurInput
    \/ BlurTimeout
    \/ Tick
    \/ \E text \in TypedTexts : ChangeInput(text)
    \/ \E item \in ItemPool : MouseDownRow(item)
    \/ \E list \in Catalogs : SetItems(list)
    \/ \E dis \in BOOLEAN : SetDisabled(dis)

SpecSelect == InitSelect /\ [][SelectNext]_vars

\* The filter alone: an enabled selector mounted with any candidate list, into
\* which any query is typed.
InitFilter ==
    /\ ApiInit /\ SessionInit /\ CartInit /\ pathname = "/"
    /\ AppInit /\ UiInit /\ ServerInit(FALSE, <<>>)
    /\ \E list \in ItemLists : SelectorInit(list, FALSE)

FilterNext ==
    \/ FocusInput
    \/ \E text \in Strings : ChangeInput(text)

SpecFilter == InitFilter /\ [][FilterNext]_vars

\* The session store against the server's session: any session operations,
\* answered by the server and delivered in any order, and reloads of the page.
InitReload ==
    /\ ApiInit /\ SessionInit /\ CartInit /\ pathname = "/"
    /\ SelectorInit(<<>>, FALSE) /\ AppInit /\ UiInit
    /\ \E session \in BOOLEAN : ServerInit(session, <<>>)

ReloadNext ==
    \/ AuthMountEffect
    \/ Login
    \/ Logout
    \/ \E op \in {"checkAuth", "login", "logout"} : \E fate \in Fates :
            ServerAuthHandle(op, fate)
    \/ \E i \in 1..Len(serverAnswers) : AuthDeliver(i)
    \/ Reload

SpecReload == InitReload /\ [][ReloadNext]_vars

\* A mounted cart store against the server's cart: its requests overlap, are
\* answered by the server and delivered in any order.
InitServed ==
    /\ ApiInit /\ SessionInit /\ CartInit /\ pathname = "/"
    /\ SelectorInit(<<>>, FALSE) /\ AppInit /\ UiInit
    /\ \E cart \in ServerCarts : ServerInit(TRUE, cart)

CartRequests ==
    {GetCartReq, AddToCartReq, ClearCartReq} \cup {RemoveReq(id) : id \in EntryIds}

ServedNext ==
    \/ CartMountEffect
    \/ RefreshCart
    \/ AddToCart
    \/ \E id \in EntryIds : RemoveFromCart(id)
    \/ ClearCart
    \/ \E req \in CartRequests : \E fate \in Fates : ServerCartHandle(req, fate)
    \/ \E i \in 1..Len(serverAnswers) : CartDeliver(i)

SpecServed == InitServed /\ [][ServedNext]_vars

\* The same with one request at a time: an operation is dispatched only when
\* no call of the store is in flight.
SequentialNext ==
    \/ CartMountEffect
    \/ cartPending = EmptyBag /\ RefreshCart
    \/ cartPending = EmptyBag /\ AddToCart
    \/ cartPending = EmptyBag /\ \E id \in EntryIds : RemoveFromCart(id)
    \/ cartPending = EmptyBag /\ ClearCart
    \/ \E req \in CartRequests : \E fate \in Fates : ServerCartHandle(req, fate)
    \/ \E i \in 1..Len(serverAnswers) : CartDeliver(i)

SpecSequential == InitServed /\ [][SequentialNext]_vars

(***************************************************************************)
(* Properties.  A step of a provider settles a call when its bag of calls  *)
(* in flight shrinks, and dispatches one when the bag grows; the call that *)
(* settled is then the one authLast' / cartLast' describes.                *)
(***************************************************************************)
AuthSettles    == BagCardinality(authPending') < BagCardinality(authPending)
CartSettles    == BagCardinality(cartPending') < BagCardinality(cartPending)
CartDispatches == BagCardinality(cartPending') > BagCardinality(cartPending)
CartSettled(op, kind) ==
    CartSettles /\ cartLast'.op = op /\ cartLast'.api.kind = kind

\* The entries of l whose id is not id, in l's order.
RECURSIVE WithoutId(_, _)
WithoutId(l, id) ==
    IF l = <<>> THEN <<>>
    ELSE IF Head(l).id = id THEN WithoutId(Tail(l), id)
    ELSE <<Head(l)>> \o WithoutId(Tail(l), id)

\* C1: whenever the call that settled last is a logout, the session is
\* Unauthenticated and logout's own promise resolved (nothing was thrown to its
\* caller), whether api.logout resolved or rejected.
C1_LogoutAlwaysUnauthenticated ==
    authLast.op = "logout" =>
        /\ Session = "Unauthenticated"
        /\ authLast.outcome = "resolved"
        /\ authLast.thrown = ""

\* A logout whose API call rejected, issued from an authenticated session, has
\* settled.
C1_Witness ==
    /\ authLast.op = "logout"
    /\ authLast.api.kind = "reject"
    /\ authLast.was
    /\ ~isAuthenticated

\* C2 as stated: the entry list changes only in a step in which a server call
\* settles successfully; no dispatch and no failed call changes it.
C2_ListChangesOnlyOnSuccess ==
    [][cartEntries' # cartEntries =>
        CartSettles /\ cartLast'.api.kind = "resolve"]_vars

\* C2 as amended: the entry list changes only in a step in which a server call
\* settles, either successfully or as a failed getCart, which empties the list;
\* no dispatch and no failed addToCart, removeFromCart or clearCart changes it.
C2_ListChangesOnlyOnSettle ==
    [][cartEntries' # cartEntries =>
        /\ CartSettles
        /\ \/ cartLast'.api.kind = "resolve"
           \/ cartLast'.op = "getCart" /\ cartEntries' = <<>>]_vars

\* A failed getCart has emptied a list that held entries.
C2_Witness ==
    /\ cartLast.op = "getCart"
    /\ cartLast.api.kind = "reject"
    /\ cartLast.prev # <<>>
    /\ cartEntries = <<>>

\* C3: once a client call has settled on a non-success HTTP status, it rejected,
\* with the body's `error` field as the message when the body parses and the
\* field is non-empty, and with the operation's fallback string otherwise.
C3_ErrorMessageFromBodyOrFallback ==
    (apiResult # Unsettled /\ apiResp.net /\ ~apiResp.ok) =>
        /\ apiResult.kind = "reject"
        /\ apiResult.message =
              IF apiResp.body.parses /\ apiResp.body.error \notin {Absent, ""}
              THEN apiResp.body.error
              ELSE Fallback(apiOp)

\* C4: the step in which an addToCart fails leaves the entry list as it was,
\* sets error to the failure's message and resolves addToCart's own promise;
\* the step that dispatched the call left the list as it was too.
C4_AddToCartFailure ==
    [][/\ CartSettled("addToCart", "reject") =>
            /\ cartEntries' = cartEntries
            /\ cartError' = cartLast'.api.message
            /\ cartLast'.outcome = "resolved"
       /\ (CartDispatches /\ BagIn(AddToCartReq, cartPending' (-) cartPending)) =>
            cartEntries' = cartEntries]_vars

\* An addToCart has failed on a list that held entries, and the error shows.
C4_Witness ==
    /\ cartLast.op = "addToCart"
    /\ cartLast.api.kind = "reject"
    /\ cartLast.prev # <<>>
    /\ cartEntries = cartLast.prev
    /\ cartError = cartLast.api.message

\* C5: the step in which an addToCart succeeds makes the list the previous list
\* followed by the entry the server returned, and no dispatch inserts anything.
C5_AddToCartAppends ==
    [][/\ CartSettled("addToCart", "resolve") =>
            /\ Len(cartLast'.returned) = 1
            /\ cartEntries' = Append(cartEntries, cartLast'.returned[1])
       /\ CartDispatches => cartEntries' = cartEntries]_vars

\* An addToCart has succeeded on a list that held an entry: the returned entry
\* is last, after the entry that was there.
C5_Witness ==
    /\ cartLast.op = "addToCart"
    /\ cartLast.api.kind = "resolve"
    /\ Len(cartLast.prev) = 1
    /\ Len(cartEntries) = 2
    /\ cartEntries[1] = cartLast.prev[1]
    /\ cartEntries[2] = cartLast.returned[1]
    /\ cartEntries[2] # cartEntries[1]

\* C6: the step in which removeFromCart(id) succeeds makes the list the previous
\* list without the entries whose id is id, the others in their order; the step
\* in which it fails sets error and leaves the list as it was.
C6_RemoveFromCart ==
    [][/\ CartSettled("removeFromCart", "resolve") =>
            cartEntries' = WithoutId(cartEntries, cartLast'.arg)
       /\ CartSettled("removeFromCart", "reject") =>
            /\ cartEntries' = cartEntries
            /\ cartError' # Null
            /\ cartError' = cartLast'.api.message]_vars

\* A removeFromCart has removed the first of two entries and kept the second.
C6_Witness ==
    /\ cartLast.op = "removeFromCart"
    /\ cartLast.api.kind = "resolve"
    /\ Len(cartLast.prev) = 2
    /\ cartLast.prev[1].id = cartLast.arg
    /\ cartEntries = <<cartLast.prev[2]>>

\* C7: the step in which clearCart succeeds empties the list; the step in which
\* it fails sets error to the failure's message and leaves the list as it was.
C7_ClearCart ==
    [][/\ CartSettled("clearCart", "resolve") => cartEntries' = <<>>
       /\ CartSettled("clearCart", "reject") =>
            /\ cartEntries' = cartEntries
            /\ cartError' = cartLast'.api.message]_vars

\* A clearCart has failed on the server's own error message and the list still
\* holds its entries.
C7_Witness ==
    /\ cartLast.op = "clearCart"
    /\ cartLast.api.kind = "reject"
    /\ cartLast.api.message = "Server error"
    /\ cartError = "Server error"
    /\ cartEntries # <<>>

C9_Login ==
    authLast.op = "login" =>
        IF authLast.api.kind = "resolve"
        THEN Session = "Authenticated" /\ authLast.outcome = "resolved"
        ELSE /\ Session = "Unauthenticated"
             /\ authLast.outcome = "rejected"
             /\ authLast.thrown = authLast.api.message

\* A login has failed in a session that was Authenticated, and the session is
\* Unauthenticated now.
C9_Witness ==
    /\ authLast.op = "login"
    /\ authLast.api.kind = "reject"
    /\ authLast.was
    /\ Session = "Unauthenticated"

\* C10: while the session is Loading or Unauthenticated the page on screen is
\* none or the login page, and while it is Loading nothing below the session
\* store is on screen.
C10_NoProtectedContent ==
    /\ Session # "Authenticated" => view.page \in {"none", "/login"}
    /\ Session = "Loading" => ~view.below /\ ~view.guard /\ view.page = "none"

\* A session on the cart page has been logged out: the guard is on screen and
\* shows no page.
C10_Witness ==
    /\ authLast.op = "logout"
    /\ authLast.was
    /\ Session = "Unauthenticated"
    /\ pathname = "/cart"
    /\ view.guard
    /\ view.page = "none"

\* The guard redirects in this state: its effect can run.
Redirects == ENABLED RedirectEffect

\* C12: in every state where the guard is rendered: an Unauthenticated session
\* off /login sees no page and the guard redirects; on /login the guard shows
\* its children (the login page) and does not redirect; an Authenticated
\* session sees the page of its path, whatever the path, and the guard does not
\* redirect.  Every redirect goes to /login and leaves an Unauthenticated
\* session's path that was not /login.
C12_RouteGuard ==
    /\ [](view.guard =>
            /\ (Session = "Unauthenticated" /\ pathname # "/login") =>
                    view.page = "none" /\ Redirects
            /\ pathname = "/login" => view.page = "/login" /\ ~Redirects
            /\ Session = "Authenticated" => view.page = pathname /\ ~Redirects)
    /\ [][(pathname' # pathname /\ view.page = "none") =>
            /\ Session = "Unauthenticated"
            /\ pathname # "/login"
            /\ pathname' = "/login"
            /\ view'.page = "/login"]_vars

\* The guard has redirected a logged-out session from the cart page to /login,
\* where the login page is on screen.
C12_Witness ==
    /\ authLast.op = "logout"
    /\ authLast.was
    /\ Session = "Unauthenticated"
    /\ pathname = "/login"
    /\ view.guard
    /\ view.page = "/login"
    /\ ~Redirects

\* C13: a refresh dispatches one more getCart, and whenever the call that
\* settled last is a getCart that resolved, the list is exactly the list it
\* fetched: nothing of the list it replaced is kept, whatever calls overlapped it.
C13_RefreshReplaces ==
    (cartLast.op = "getCart" /\ cartLast.api.kind = "resolve") =>
        cartEntries = cartLast.returned

\* A getCart has resolved on a list that held entries while another getCart is
\* still in flight, and the list is its snapshot, which holds none of them.
C13_Witness ==
    /\ cartLast.op = "getCart"
    /\ cartLast.api.kind = "resolve"
    /\ BagIn(GetCartReq, cartPending)
    /\ cartLast.prev # <<>>
    /\ cartLast.returned # <<>>
    /\ \A i \in 1..Len(cartLast.prev) : \A j \in 1..Len(cartLast.returned) :
            cartLast.prev[i] # cartLast.returned[j]
    /\ cartEntries = cartLast.returned

\* The mutating cart operations, and what a successful one does to a list l.
Mutating == {"addToCart", "removeFromCart", "clearCart"}
MutationEffect(call, l) ==
    CASE call.op = "addToCart"      -> l \o call.returned
      [] call.op = "removeFromCart" -> WithoutId(l, call.arg)
      [] call.op = "clearCart"      -> <<>>

\* C14: the step in which a mutating call succeeds applies its effect to the
\* list as it is when the response arrives, so with several in flight the
\* effects accumulate in arrival order; and the steps in between, which
\* dispatch calls, leave the list as it was.
C14_ConcurrentMutations ==
    [][/\ (CartSettles /\ cartLast'.op \in Mutating
                       /\ cartLast'.api.kind = "resolve") =>
            cartEntries' = MutationEffect(cartLast', cartEntries)
       /\ ~CartSettles => cartEntries' = cartEntries]_vars

\* An addToCart has succeeded while another addToCart is still in flight: its
\* entry follows the entries that were there.
C14_Witness ==
    /\ cartLast.op = "addToCart"
    /\ cartLast.api.kind = "resolve"
    /\ BagIn(AddToCartReq, cartPending)
    /\ Len(cartLast.returned) = 1
    /\ cartEntries = cartLast.prev \o cartLast.returned

\* Two characters are the same letter when they are equal or the two cases of
\* one letter; name contains q ignoring case when q's characters are, in turn,
\* the same letters as those of name from some offset on.
SameLetter(c, d) == c = d \/ {c, d} \in {{"a", "A"}, {"b", "B"}}
ContainsIgnoringCase(name, q) ==
    \E off \in 0..(Len(name) - Len(q)) :
        \A k \in 1..Len(q) : SameLetter(name[off + k], q[k])

\* The items of l whose name contains q ignoring case, in l's order.
RECURSIVE KeepMatching(_, _)
KeepMatching(l, q) ==
    IF l = <<>> THEN <<>>
    ELSE IF ContainsIgnoringCase(Head(l).name, q)
         THEN <<Head(l)>> \o KeepMatching(Tail(l), q)
         ELSE KeepMatching(Tail(l), q)

\* C16: in every state the items the selector has filtered are exactly the
\* items of the candidate list whose name contains the query ignoring case, in
\* the list's order; with the empty query they are the whole list.
C16_FilterMatches ==
    /\ selView.filteredItems = KeepMatching(items, query)
    /\ query = <<>> => selView.filteredItems = items

\* A query in the other case than a name's has kept the second of two items and
\* dropped the first.
C16_Witness ==
    /\ Len(items) = 2
    /\ query # <<>>
    /\ query # ToLowerCase(query)
    /\ ~Includes(items[2].name, query)
    /\ selView.filteredItems = <<items[2]>>
    /\ selView.rows = <<items[2]>>

\* C17: the step in which a row showing item X is pressed sets the selected item
\* to X and the text of the input to X.name, closes the list, and calls onSelect
\* once, with X.
C17_SelectingItem ==
    [][selEvent'.type = "mousedown" =>
            LET X == selEvent'.item
            IN  /\ \E i \in 1..Len(selView.rows) : selView.rows[i] = X
                /\ selectedItem' = X
                /\ query' = X.name
                /\ selView'.value = X.name
                /\ ~isOpen'
                /\ ~selView'.listbox
                /\ selEvent'.calls = <<X>>]_vars

\* An item has been selected in place of another one: it is the selected item,
\* its name is the text, the list is closed and onSelect was called with it.
C17_Witness ==
    /\ selEvent.type = "mousedown"
    /\ selEvent.before.selectedItem # NoItem
    /\ selEvent.before.selectedItem # selEvent.item
    /\ selEvent.before.isOpen
    /\ selectedItem = selEvent.item
    /\ query = selEvent.item.name
    /\ ~isOpen
    /\ selEvent.calls = <<selEvent.item>>

\* C18: the step in which the caller passes a candidate list empties the text of
\* the input and sets the selected item to null, whatever they were, and calls
\* onSelect not at all.
C18_NewItemsReset ==
    [][selEvent'.type = "items" =>
            /\ query' = <<>>
            /\ selView'.value = <<>>
            /\ selectedItem' = NoItem
            /\ selEvent'.calls = <<>>]_vars

\* The caller has passed another list to a selector that had a selection and a
\* text: both are gone.
C18_Witness ==
    /\ selEvent.type = "items"
    /\ selEvent.before.selectedItem # NoItem
    /\ selEvent.before.text
    /\ selEvent.before.isOpen
    /\ query = <<>>
    /\ selectedItem = NoItem

\* C19: a blur leaves the list as it is; the timeout of a blur closes it; and
\* while the input has not regained the focus an open list is closed only by a
\* selection or by a timeout that leaves no later blur's delay running, that is,
\* not before the delay of the latest blur has elapsed.
C19_BlurClosesAfterDelay ==
    [][/\ selEvent'.type = "blur" => isOpen' = isOpen
       /\ selEvent'.type = "timeout" => ~isOpen'
       /\ (isOpen /\ ~isOpen' /\ ~focused) =>
            \/ selEvent'.type = "mousedown"
            \/ /\ selEvent'.type = "timeout"
               /\ \A i \in 1..Len(timers') : timers'[i] <= 0]_vars

\* C20: in every state the list is on screen only if the selector is open, not
\* disabled and has a match; a focus opens an enabled selector and leaves a
\* disabled one as it was; a change of the text opens the selector.
C20_ListDisplayed ==
    /\ [](selView.listbox =>
            isOpen /\ ~disabled /\ Len(selView.filteredItems) > 0)
    /\ [][/\ (selEvent'.type = "focus" /\ ~disabled) => isOpen'
          /\ (selEvent'.type = "focus" /\ disabled) => isOpen' = isOpen
          /\ selEvent'.type = "change" => isOpen']_vars

\* Typing has re-opened a selector that a selection had closed, and the list is
\* on screen.
C20_Witness ==
    /\ selEvent.type = "change"
    /\ ~selEvent.before.isOpen
    /\ selEvent.before.selectedItem # NoItem
    /\ isOpen
    /\ selView.listbox

\* C11: in every state the cart store is in the rendered tree only if the
\* session is Authenticated, and once the tree is committed a session that is
\* not Authenticated has no cart store instance and no call of one; and every
\* step that dispatches a cart call is taken by an Authenticated session, which
\* it leaves Authenticated.
C11_CartOnlyWhileAuthenticated ==
    /\ [](/\ view.cart => Session = "Authenticated"
          /\ (Committed /\ Session # "Authenticated") =>
                ~cartEffectRan /\ cartPending = EmptyBag)
    /\ [][CartDispatches =>
            /\ Session = "Authenticated"
            /\ Session' = "Authenticated"
            /\ view.cart]_vars

\* A session that was Authenticated has been logged out while a call of its
\* cart store was in flight: no cart store is mounted and the call is still in
\* flight.
C11_Witness ==
    /\ authLast.op = "logout"
    /\ authLast.was
    /\ Session = "Unauthenticated"
    /\ Committed
    /\ ~view.cart
    /\ ~cartEffectRan
    /\ cartPending = EmptyBag
    /\ cartOrphans # EmptyBag

\* A call of an unmounted cart store settles in this step.
OrphanSettles == BagCardinality(cartOrphans') < BagCardinality(cartOrphans)

C29_SettlesOnce ==
    /\ apiResult # Unsettled =>
           apiResult' = apiResult \/ apiOp' = "none"
    /\ (apiResult = Unsettled /\ apiResult' # Unsettled) =>
           /\ apiResp # NoResp
           /\ apiResult'.kind \in {"resolve", "reject"}
           /\ apiFetches' = 1

(***************************************************************************)
(* C29: every call of the API client issues exactly one HTTP request and   *)
(* never another one, whatever the outcome of the request; the call's      *)
(* promise settles once, after that request has settled, with a resolution *)
(* or a rejection, and stays as it settled until the caller is done.       *)
(***************************************************************************)
C29_OneRequestPerCall ==
    /\ [](apiFetches = IF apiOp = "none" THEN 0 ELSE 1)
    /\ [][C29_SettlesOnce]_vars

\* A call whose request failed has settled as a rejection, with one request.
C29_Witness ==
    /\ apiOp # "none"
    /\ apiResp # NoResp
    /\ ~apiResp.net \/ ~apiResp.ok
    /\ apiResult.kind = "reject"
    /\ apiFetches = 1

\* A text with a character other than a blank; a login call of the form in flight.
NonBlank(s)   == \E i \in 1..Len(s) : s[i] # " "
LoginInFlight == BagIn("login", authPending)
LoginCalled   == CopiesIn("login", authPending') > CopiesIn("login", authPending)
LoginSettles  == CopiesIn("login", authPending') < CopiesIn("login", authPending)

(***************************************************************************)
(* C27: the submit control of the login form on screen is enabled exactly  *)
(* when the user name and the password both hold a character other than a  *)
(* blank and no login request is in flight; while a request is in flight   *)
(* both inputs are disabled; and login is called only by the submission of *)
(* a form whose two fields hold a character other than a blank.            *)
(***************************************************************************)
C27_SubmitControl ==
    /\ [](LoginFormMounted =>
            /\ ~LoginFormRender(loginForm).submitDisabled <=>
                 /\ NonBlank(loginForm.username)
                 /\ NonBlank(loginForm.password)
                 /\ ~LoginInFlight
            /\ LoginInFlight =>
                 /\ LoginFormRender(loginForm).usernameDisabled
                 /\ LoginFormRender(loginForm).passwordDisabled)
    /\ [][/\ LoginCalled =>
                /\ NonBlank(loginForm.username)
                /\ NonBlank(loginForm.password)
                /\ formLast'.type = "submit"
          /\ (formLast'.type = "submit" /\ ~formLast'.called) =>
                UNCHANGED authPending]_vars

\* A form with a blank-padded user name was submitted and its request is in
\* flight: the submit control and the inputs are disabled.
C27_Witness ==
    /\ LoginFormMounted
    /\ LoginInFlight
    /\ formLast.type = "submit" /\ formLast.called
    /\ loginForm.username # Trim(loginForm.username)
    /\ LoginFormRender(loginForm).submitDisabled
    /\ LoginFormRender(loginForm).usernameDisabled

(***************************************************************************)
(* C28: the login form navigates to "/" in exactly the steps in which its  *)
(* login call resolves; when the call rejects the path stays and the form  *)
(* shows the message of the rejection, or 'Failed to login' for an empty   *)
(* message; either way the form stops loading in that step, and in no      *)
(* other step.                                                             *)
(***************************************************************************)
C28_LoginOutcome ==
    [][/\ LoginSettles =>
            /\ ~loginForm'.isLoading
            /\ IF authLast'.outcome = "resolved"
               THEN /\ formLast'.pushed
                    /\ pathname' = "/"
                    /\ ~LoginFormRender(loginForm').errorShown
               ELSE /\ ~formLast'.pushed
                    /\ pathname' = pathname
                    /\ LoginFormRender(loginForm').errorShown
                    /\ loginForm'.error = IF authLast'.thrown = ""
                                          THEN "Failed to login"
                                          ELSE authLast'.thrown
       /\ ~LoginSettles =>
            /\ pathname' = pathname
            /\ ~formLast'.pushed
            /\ loginForm.isLoading => loginForm'.isLoading]_vars

\* A login that rejected without a message: the form stays at /login, shows
\* 'Failed to login' and is enabled again.
C28_Witness ==
    /\ formLast.type = "settle" /\ ~formLast.pushed
    /\ authLast.op = "login" /\ authLast.outcome = "rejected"
    /\ authLast.thrown = ""
    /\ pathname = "/login"
    /\ loginForm.error = "Failed to login"
    /\ ~loginForm.isLoading
    /\ ~LoginFormRender(loginForm).submitDisabled

(***************************************************************************)
(* C25: onClose is called only for a mounted, visible toast, at the moment *)
(* its duration has elapsed since it was made visible, and once: a visible *)
(* toast has no call before that moment and one call after it; a toast     *)
(* that is hidden or unmounted has no timeout pending, so that no call     *)
(* follows.                                                                *)
(***************************************************************************)
C25_ToastCloses ==
    /\ [](toast.mounted /\ toast.isVisible =>
            /\ toastClock < toast.duration => toastCloses = 0
            /\ toastClock > toast.duration => toastCloses = 1)
    /\ [](~(toast.mounted /\ toast.isVisible) => toastTimer = NoTimer)
    /\ [][toastCloses' > toastCloses =>
            /\ toast.mounted /\ toast.isVisible
            /\ toastClock = toast.duration
            /\ toastCloses = 0 /\ toastCloses' = 1]_vars

\* A toast of the default duration has called onClose once, stayed visible
\* and seen more time pass.
C25_Witness ==
    /\ toast.mounted /\ toast.isVisible
    /\ toast.duration = DEFAULT_DURATION_MS
    /\ toastClock > toast.duration
    /\ toastCloses = 1

(***************************************************************************)
(* C26: a visible toast with the delay d is on screen exactly when d has   *)
(* elapsed since it was made visible.                                      *)
(***************************************************************************)
C26_ToastDelay ==
    toast.mounted /\ toast.isVisible =>
        (ToastRender(toast) = "message" <=> toastClock >= toast.delay)

(***************************************************************************)
(* C21: the quantity onQuantityChange is given for a typed quantity is an  *)
(* integer from 0 to 99: 0 for a typed quantity below 0 and 99 for one     *)
(* above 99.                                                               *)
(***************************************************************************)
C21_QuantityClamped ==
    equipLast # NoTyped =>
        /\ equipLast.reported \in 0..99
        /\ equipLast.typed < 0 => equipLast.reported = 0
        /\ equipLast.typed > 99 => equipLast.reported = 99

\* 150 was typed into a row and 99 reported and stored.
C21_Witness ==
    /\ equipLast.id \in selectedIds
    /\ equipLast.typed = 150
    /\ equipLast.reported = 99
    /\ quantities[equipLast.id] = 99

\* The ids of the rows that are selected with a quantity above 0, and the
\* place of a row in the equipment list.
QualifyingIds == {id \in EquipmentIds : id \in selectedIds /\ quantities[id] > 0}
CatalogIndex(id) == CHOOSE k \in DOMAIN EquipmentItems : EquipmentItems[k].id = id
SaveInvalid == school = NoChoice \/ grade = NoChoice \/ QualifyingIds = {}

(***************************************************************************)
(* C22: the items of the payload addToCart was called with are the rows    *)
(* that are selected with a quantity above 0 and no others, each with its  *)
(* id, its name and the quantity of the quantities map, in the order of    *)
(* the equipment list.                                                     *)
(***************************************************************************)
C22_PayloadItems ==
    saveLast.called =>
        LET its == saveLast.items
        IN  /\ {its[i].id : i \in DOMAIN its} = QualifyingIds
            /\ \A i \in DOMAIN its :
                 /\ its[i].name = EquipmentItems[CatalogIndex(its[i].id)].name
                 /\ its[i].quantity = quantities[its[i].id]
            /\ \A i, j \in DOMAIN its :
                 i < j => CatalogIndex(its[i].id) < CatalogIndex(its[j].id)

\* Both rows are selected, the first with the quantity 0: the payload holds
\* the second row alone.
C22_Witness ==
    /\ saveLast.called
    /\ selectedIds = EquipmentIds
    /\ quantities[EquipmentItems[1].id] = 0
    /\ Len(saveLast.items) = 1
    /\ saveLast.items[1].id = EquipmentItems[2].id

(***************************************************************************)
(* C23, as stated: the save control is disabled exactly when the school is *)
(* absent, the grade is absent or no row is selected with a quantity above *)
(* 0.                                                                      *)
(***************************************************************************)
C23_SaveDisabledIff ==
    SaveRender.disabled <=> SaveInvalid

(***************************************************************************)
(* C23, amended: the save control is disabled exactly when the school is   *)
(* absent, the grade is absent, no row is selected with a quantity above   *)
(* 0, its `disabled` prop is set or it shows its confirmation.             *)
(***************************************************************************)
C23_SaveDisabledIffOrBusy ==
    SaveRender.disabled <=>
        \/ SaveInvalid
        \/ saveButton.disabled
        \/ saveButton.saved

\* School, grade and a qualifying row are present and the prop is not set:
\* the control is disabled by its confirmation alone.
C23_Witness ==
    /\ ~SaveInvalid
    /\ ~saveButton.disabled
    /\ saveButton.saved
    /\ SaveRender.disabled

(***************************************************************************)
(* C30: while the school or the grade is absent or no row is selected with *)
(* a quantity above 0, the control has called addToCart for no click       *)
(* delivered to it: no call of it is in flight and none has settled.       *)
(***************************************************************************)
C30_NoSaveWhenInvalid ==
    SaveInvalid =>
        /\ ~saveLast.called
        /\ PendingAdds = 0
        /\ cartLast.op # "addToCart"

\* A click was delivered to a control without a school, whose other props
\* would allow a save; nothing was called.
C30_Witness ==
    /\ school = NoChoice
    /\ grade # NoChoice /\ QualifyingIds # {}
    /\ ~saveButton.disabled
    /\ saveLast.clicked /\ ~saveLast.called
    /\ cartEffectRan /\ PendingAdds = 0

(***************************************************************************)
(* C24: the save control shows its confirmation only once the save it      *)
(* dispatched has succeeded; while it shows the confirmation it is         *)
(* disabled and dispatches no addToCart; the confirmation ends when its    *)
(* duration has elapsed, and not otherwise.                                *)
(***************************************************************************)
C24_Confirmation ==
    /\ [](saveButton.saved =>
            /\ PendingAdds = 0
            /\ cartLast.op = "addToCart" /\ cartLast.api.kind = "resolve")
    /\ [](saveButton.saved => SaveRender.disabled)
    /\ [][/\ PendingAdds' > PendingAdds => ~saveButton.saved
          /\ (saveButton.saved /\ ~saveButton'.saved) => saveTimer = 0]_vars

(***************************************************************************)
(* C31: a submission of the login form clears the error of the earlier     *)
(* attempt before the new request is issued: while a login request of the  *)
(* form is in flight the form shows no error, and the step of a submission *)
(* leaves none, whether it called login or not.                            *)
(***************************************************************************)
C31_ErrorClearedOnSubmit ==
    /\ [](LoginFormMounted /\ LoginInFlight =>
            ~LoginFormRender(loginForm).errorShown)
    /\ [][formLast'.type = "submit" /\ formLast' # formLast =>
            loginForm'.error = ""]_vars

\* The earlier attempt was rejected and its error shown; the form was
\* submitted again and the new request is in flight with no error on screen.
C31_Witness ==
    /\ LoginFormMounted
    /\ authLast.op = "login" /\ authLast.outcome = "rejected"
    /\ formLast.type = "submit" /\ formLast.called
    /\ LoginInFlight
    /\ loginForm.error = ""

\* C33: loading is true in every state in which a getCart (the fetch of the
\* mount or a refresh) is in flight, two overlapping fetches included, and it
\* is false once the mount effect has run and no getCart is in flight.
C33_LoadingWhileFetching ==
    /\ BagIn(GetCartReq, cartPending) => loading
    /\ (cartEffectRan /\ ~BagIn(GetCartReq, cartPending)) => ~loading

C38_RefocusKeepsOpen ==
    [][selEvent'.type = "timeout" =>
            IF focused THEN isOpen' = isOpen ELSE ~isOpen']_vars

\* C36: the step in which a getCart (of the mount or of a refresh) settles as
\* failed empties the list, sets error to the failure's message, or to 'Failed
\* to fetch cart' when that message is empty, and sets loading to false; and in
\* no state is the store loading when its mount effect has run and no getCart
\* is in flight.
C36_FetchFailure ==
    /\ [][CartSettled("getCart", "reject") =>
            /\ cartEntries' = <<>>
            /\ cartError' = OrElse(cartLast'.api.message, "Failed to fetch cart")
            /\ ~loading']_vars
    /\ []((cartEffectRan /\ ~BagIn(GetCartReq, cartPending)) => ~loading)

\* A refresh has failed on a list that held entries: the list is empty, the
\* error is the failure's message, and the store is not loading.
C36_Witness ==
    /\ cartLast.op = "getCart"
    /\ cartLast.api.kind = "reject"
    /\ cartLast.prev # <<>>
    /\ cartEntries = <<>>
    /\ cartError = cartLast.api.message
    /\ cartPending = EmptyBag
    /\ ~loading

\* The cart store's error is set in this step.
CartErrorSet == cartError' # Null /\ cartError' # cartError

\* C37: the step that dispatches a cart operation (a fetch, an add, a remove or
\* a clear) leaves error null; error starts null and is set only by the step in
\* which a call settles as failed.  Hence whenever error is not null, a call has
\* failed since the latest dispatch.
C37_ErrorResetOnDispatch ==
    /\ cartError = Null
    /\ [][CartDispatches => cartError' = Null]_vars
    /\ [][CartErrorSet => (CartSettles /\ cartLast'.api.kind = "reject")]_vars

\* After a call has failed another operation was dispatched: the error of the
\* failure is gone while that operation is in flight.
C37_Witness ==
    /\ cartLast.api.kind = "reject"
    /\ cartLast.outcome # "none"
    /\ cartPending # EmptyBag
    /\ cartError = Null

\* C32: in every state of the cart store against a server that gives every
\* entry an id of its own, no two entries of the local list have the same id,
\* however the requests of refreshCart, addToCart, removeFromCart and clearCart
\* and their answers interleave.
C32_NoDuplicateIds == UniqueIds(cartEntries)

\* C39: when the page was reloaded after a logout had settled, the checkAuth
\* of the reloaded session store leaves the session Unauthenticated, also when
\* the logout's API call had failed.
C39_LoggedOutAfterReload ==
    (reloadedAfter = "logout" /\ authLast.op = "checkAuth") =>
        Session = "Unauthenticated"

\* The cart operation that settled last has succeeded and none is in flight.
SettledSuccessfully ==
    /\ cartPending = EmptyBag
    /\ cartLast.op # "none"
    /\ cartLast.api.kind = "resolve"

====
